---- MODULE Spec2Model ----
(***************************************************************************)
(* Agreement negotiation core of the agreement bot: the agreement workers  *)
(* (InitiateNewAgreement, HandleAgreementReply, HandleDataReceivedAck,     *)
(* HandleWorkloadUpgrade, CancelAgreementWithLock, CancelAgreement) as a   *)
(* pool of concurrent workers over the agreement store, the workload usage *)
(* record and the agreement lock manager.                                  *)
(***************************************************************************)
EXTENDS Integers, Sequences, FiniteSets, TLC

VARIABLES
    wk,         \* per worker: position in its handler and the handler's locals
    lockMap,    \* AgreementLockManager: agreement id -> lock instance (0 = absent)
    holder,     \* lock instance -> the worker holding it, or "free"
    ag,         \* agreement store: agreement id -> record
    wu,         \* the workload usage record of the (device, policy name) key
    policy,     \* the consumer policy's workload list
    known,      \* agreement ids for which an agreement record was created
    nextId,     \* index of the next agreement id GenerateAgreementId returns
    persisted,  \* agreement id -> number of replies PersistReply accepted
    term,       \* agreement id -> number of TerminateAgreement tasks spawned
    defq,       \* agreement id -> number of deferred AsyncCancelAgreement commands
    nev,        \* number of events handed to the workers so far
    env,        \* the run's environment: the ids GenerateAgreementId returns, the
                \* events available, the protocol versions, ledger types and
                \* ledger states that occur, and the order of the events if the
                \* run fixes one
    eth,        \* EthBlockchainWorker: instances, neededBCs, the shutdown flag, the
                \* command channel and the clock
    pull        \* pullImageFromRepos: the services left, the attempts made and the
                \* value returned

vars == <<wk, lockMap, holder, ag, wu, policy, known, nextId, persisted, term, defq, nev, env,
          eth, pull>>

----------------------------------------------------------------------------
(* Bounds of the model *)

MaxEvents == 4      \* events the worker pool is handed in one behaviour
MaxWorkloads == 2   \* longest workload list of the selector specification
MaxPriority == 2    \* largest priority value of the selector specification
MaxRetries == 1     \* largest retries value of the selector specification

WorkerSeq == <<"w1", "w2">>
Workers == {WorkerSeq[i] : i \in 1..Len(WorkerSeq)}
Ids == <<"A", "B">>
IdSet == {Ids[i] : i \in 1..Len(Ids)}
NoId == ""
Inst == 1..(Cardinality(Workers) + Len(Ids))

Min(S) == CHOOSE x \in S : \A y \in S : x <= y
Cap(n, m) == IF n > m THEN m ELSE n

----------------------------------------------------------------------------
(* Termination reasons *)

TERM_REASON_NEGATIVE_REPLY == "NEGATIVE_REPLY"
TERM_REASON_CANCEL_BC_WRITE_FAILED == "CANCEL_BC_WRITE_FAILED"
TERM_REASON_CANCEL_FORCED_UPGRADE == "CANCEL_FORCED_UPGRADE"
TERM_REASON_OTHER == "POLICY_CHANGED"

----------------------------------------------------------------------------
(* Consumer policy: a workload is [prio, retries]; prio = 0 is the empty   *)
(* priority. A workload is named by its index in the list, 0 is nil.       *)

Workload(p, r) == [prio |-> p, retries |-> r]

HasEmptyPriority(pol, i) == pol[i].prio = 0

\* the workload of the lowest priority value above `floor`, first in input order
HighestPriorityWorkload(pol, floor) ==
    LET cand == {i \in 1..Len(pol) : pol[i].prio > floor}
    IN IF cand = {} THEN 0
       ELSE Min({i \in cand : \A j \in cand : pol[i].prio <= pol[j].prio})

WorkloadWithPriority(pol, p) ==
    LET cand == {i \in 1..Len(pol) : pol[i].prio = p}
    IN IF cand = {} THEN 0 ELSE Min(cand)

\* NextHighestPriorityWorkload(currentPriority, retryCount, retryStartTime):
\* `expired` says whether the retry window that began at retryStartTime is over.
NextHighestPriorityWorkload(pol, currentPriority, retryCount, expired) ==
    IF Len(pol) = 0 THEN 0
    ELSE IF currentPriority = 0
    THEN LET all == {i \in 1..Len(pol) : \A j \in 1..Len(pol) : pol[i].prio <= pol[j].prio}
         IN Min(all)
    ELSE LET cur == WorkloadWithPriority(pol, currentPriority)
             lower == HighestPriorityWorkload(pol, currentPriority)
         IN IF cur = 0 THEN lower
            ELSE IF retryCount = 0 THEN (IF lower = 0 THEN cur ELSE lower)
            ELSE IF retryCount <= pol[cur].retries THEN cur
            ELSE IF expired THEN cur
            ELSE IF lower = 0 THEN cur ELSE lower

----------------------------------------------------------------------------
(* Agreement lock manager *)

\* a new lock instance for worker w: one that is not in the map and that no
\* other worker refers to
FreshLock(map, w) ==
    Min({i \in Inst : /\ \A a \in IdSet : map[a] # i
                      /\ \A v \in Workers \ {w} : wk[v].lock # i})

\* getAgreementLock(id): the instance mapped to id, created if absent
getAgreementLock(map, w, id) == IF map[id] # 0 THEN map[id] ELSE FreshLock(map, w)

\* the lock map after getAgreementLock(id)
getAgreementLockMap(map, w, id) == [map EXCEPT ![id] = getAgreementLock(map, w, id)]

\* deleteAgreementLock(id): the mapping is removed
deleteAgreementLock(map, id) == [map EXCEPT ![id] = 0]

Holds(w) == wk[w].lock # 0 /\ holder[wk[w].lock] = w

----------------------------------------------------------------------------
(* Agreement store *)

NoAg == [state |-> "None", archived |-> FALSE, prop |-> FALSE, replied |-> FALSE,
         dataRcvd |-> FALSE, terminated |-> 0, reason |-> "none", cpa |-> FALSE,
         pver |-> 0, wlprio |-> 0, bc |-> FALSE]

Unarchived(db, id) == db[id].state # "None" /\ ~db[id].archived

Res(ok, db) == [ok |-> ok, db |-> db]

\* AgreementAttempt: insert the Pending record; fails if id exists unarchived
AgreementAttempt(db, id, bc) ==
    IF Unarchived(db, id) THEN Res(FALSE, db)
    ELSE Res(TRUE, [db EXCEPT ![id] = [NoAg EXCEPT !.state = "Pending", !.bc = bc]])

\* DeleteAgreement: removes an unarchived record
DeleteAgreement(db, id) ==
    IF Unarchived(db, id) THEN Res(TRUE, [db EXCEPT ![id] = NoAg]) ELSE Res(FALSE, db)

\* PersistAgreement: the proposal and the policy are stored, Pending -> Proposed
PersistAgreement(db, id, wlprio) ==
    IF Unarchived(db, id) /\ db[id].state = "Pending"
    THEN Res(TRUE, [db EXCEPT ![id].state = "Proposed", ![id].prop = TRUE, ![id].wlprio = wlprio])
    ELSE Res(FALSE, db)

AlreadyReceivedReply(rec) == rec.replied

\* variant of PersistReply that accepts a reply for any unarchived record
PersistReplyAgain(db, id, ver) ==
    IF Unarchived(db, id)
    THEN Res(TRUE, [db EXCEPT ![id].state = "Replied", ![id].replied = TRUE,
                              ![id].cpa = TRUE, ![id].pver = ver])
    ELSE Res(FALSE, db)

\* PersistReply: Pending/Proposed -> Replied, records the counterparty address
\* and the protocol version; a second reply is rejected
PersistReply(db, id, ver) ==
    IF Unarchived(db, id) /\ ~AlreadyReceivedReply(db[id]) /\ db[id].state \in {"Pending", "Proposed"}
    THEN Res(TRUE, [db EXCEPT ![id].state = "Replied", ![id].replied = TRUE,
                              ![id].cpa = TRUE, ![id].pver = ver])
    ELSE Res(FALSE, db)

\* variant of DataNotification that accepts any unarchived record
DataNotificationAny(db, id) ==
    IF Unarchived(db, id)
    THEN Res(TRUE, [db EXCEPT ![id].state = "DataReceived", ![id].dataRcvd = TRUE])
    ELSE Res(FALSE, db)

\* DataNotification: records the data receipt, Replied -> DataReceived
DataNotification(db, id) ==
    IF Unarchived(db, id) /\ db[id].state = "Replied"
    THEN Res(TRUE, [db EXCEPT ![id].state = "DataReceived", ![id].dataRcvd = TRUE])
    ELSE Res(FALSE, db)

\* variant of AgreementTimedout that also updates an archived record
AgreementTimedoutAny(db, id) ==
    IF db[id].state # "None"
    THEN Res(TRUE, [db EXCEPT ![id].state = "TimedOut", ![id].terminated = Cap(@ + 1, 2)])
    ELSE Res(FALSE, db)

\* AgreementTimedout: state = TimedOut and terminated = now
AgreementTimedout(db, id) ==
    IF Unarchived(db, id)
    THEN Res(TRUE, [db EXCEPT ![id].state = "TimedOut", ![id].terminated = Cap(@ + 1, 2)])
    ELSE Res(FALSE, db)

\* ArchiveAgreement: archived = true and the termination reason is filled in
ArchiveAgreement(db, id, reason) ==
    IF Unarchived(db, id)
    THEN Res(TRUE, [db EXCEPT ![id].state = "Archived", ![id].archived = TRUE, ![id].reason = reason])
    ELSE Res(FALSE, db)

----------------------------------------------------------------------------
(* Workload usage store: one record for the (device, policy name) key *)

NoWU == [present |-> FALSE, prio |-> 0, rc |-> 0, dr |-> FALSE, rnm |-> FALSE,
         agid |-> NoId, pol |-> FALSE]

\* NewWorkloadUsage: fails if the key has a record
NewWorkloadUsage(u, hasPolicy, prio, reqsNotMet, agid) ==
    IF u.present THEN [ok |-> FALSE, wu |-> u]
    ELSE [ok |-> TRUE, wu |-> [present |-> TRUE, prio |-> prio, rc |-> 0, dr |-> FALSE,
                               rnm |-> reqsNotMet, agid |-> agid, pol |-> hasPolicy]]

\* UpdatePriority: new priority and timings, retry accounting starts over
UpdatePriority(u, prio, agid) ==
    IF u.present THEN [ok |-> TRUE, wu |-> [u EXCEPT !.prio = prio, !.rc = 0, !.agid = agid]]
    ELSE [ok |-> FALSE, wu |-> u]

UpdateRetryCount(u, rc, agid) ==
    IF u.present THEN [ok |-> TRUE, wu |-> [u EXCEPT !.rc = rc, !.agid = agid]]
    ELSE [ok |-> FALSE, wu |-> u]

UpdatePolicy(u) ==
    IF u.present THEN [ok |-> TRUE, wu |-> [u EXCEPT !.pol = TRUE]] ELSE [ok |-> FALSE, wu |-> u]

UpdateWUAgreementId(u, agid) ==
    IF u.present THEN [ok |-> TRUE, wu |-> [u EXCEPT !.agid = agid]] ELSE [ok |-> FALSE, wu |-> u]

DeleteWorkloadUsage(u) == NoWU

----------------------------------------------------------------------------
(* Workers *)

\* a worker between events; the fields are the locals of the handler it runs
Idle == [pc |-> "idle", id |-> NoId, lock |-> 0, reason |-> "none",
         ret |-> "none", acc |-> FALSE, replay |-> FALSE, dup |-> FALSE,
         afterUp |-> FALSE,
         ackValid |-> FALSE, sendReply |-> FALSE,
         dropped |-> FALSE, posAck |-> "no", posted |-> FALSE,
         pers |-> FALSE, recorded |-> FALSE, wuInvalid |-> FALSE, wuErr |-> FALSE,
         ver |-> 0, snap |-> NoWU, cFound |-> FALSE, cArch |-> FALSE, last |-> 0,
         wl |-> 0, iter |-> 0, bc |-> FALSE, todo |-> <<>>, live |-> {}]

Set(w, r) == wk' = [wk EXCEPT ![w] = r]

Available(w) == wk[w].pc = "idle"

\* an event of the queue is taken by a worker that is not handling one; the
\* workers are interchangeable, so the first such worker takes it
CanStart(w) ==
    /\ nev < env.events
    /\ \E i \in 1..Len(WorkerSeq) :
         /\ WorkerSeq[i] = w
         /\ Available(w)
         /\ \A j \in 1..(i - 1) : ~Available(WorkerSeq[j])

\* the next event of the queue is of this kind (any kind when the run fixes
\* no order)
Scripted(kind) ==
    env.script = <<>> \/ (nev < Len(env.script) /\ env.script[nev + 1] = kind)

\* worker w is inside HandleWorkloadUpgrade
InUpgrade(w) == wk[w].pc = "u_fin" \/ wk[w].ret = "upgrade"

\* a WorkloadUpgrade event of a fixed event order was handled to its end
UpgradeHandled ==
    /\ \E i \in 1..Cap(nev, Len(env.script)) : env.script[i] = "upgrade"
    /\ \A w \in Workers : ~InUpgrade(w)

Lock(w) == [holder EXCEPT ![wk[w].lock] = w]

Unlock(w) == [holder EXCEPT ![wk[w].lock] = "free"]

Bump(f, id) == [f EXCEPT ![id] = Cap(@ + 1, 2)]

\* the result of a send to the producer: "sent", or "failed" when the message
\* target cannot be created or the send returns an error
Sends == {"sent", "failed"}

----------------------------------------------------------------------------
(* CancelAgreement and CancelAgreementWithLock *)

\* CanCancelNow: the ledger is writable or no counterparty is bound yet
CanCancelNow(rec, writable) == writable \/ ~rec.cpa

CancelFaults == {"none", "timedout", "find", "wu", "archive"}

\* variant of CancelAgreement that defers whenever the ledger is not writable
CancelAgreementDeferUnwritable(id, reason, fault, writable) ==
    LET t == IF fault = "timedout" THEN Res(FALSE, ag) ELSE AgreementTimedout(ag, id)
        found == fault # "find" /\ Unarchived(t.db, id)
        rec == t.db[id]
        u1 == IF fault = "wu" THEN [ok |-> FALSE, wu |-> wu] ELSE UpdateWUAgreementId(wu, NoId)
        u2 == IF u1.ok /\ u1.wu.rnm THEN DeleteWorkloadUsage(u1.wu) ELSE u1.wu
        a == IF fault = "archive" THEN Res(FALSE, t.db) ELSE ArchiveAgreement(t.db, id, reason)
    IN IF found
       THEN [db |-> a.db, wu |-> u2, found |-> TRUE, arch |-> a.ok,
             spawn |-> (CanCancelNow(rec, writable) \/ ~rec.cpa),
             defer |-> (rec.pver < 2 \/ ~writable)]
       ELSE [db |-> t.db, wu |-> wu, found |-> FALSE, arch |-> FALSE,
             spawn |-> FALSE, defer |-> FALSE]

\* variant of CancelAgreement that spawns TerminateAgreement only when the
\* ledger is writable
CancelAgreementSpawnWritable(id, reason, fault, writable) ==
    LET t == IF fault = "timedout" THEN Res(FALSE, ag) ELSE AgreementTimedout(ag, id)
        found == fault # "find" /\ Unarchived(t.db, id)
        rec == t.db[id]
        u1 == IF fault = "wu" THEN [ok |-> FALSE, wu |-> wu] ELSE UpdateWUAgreementId(wu, NoId)
        u2 == IF u1.ok /\ u1.wu.rnm THEN DeleteWorkloadUsage(u1.wu) ELSE u1.wu
        a == IF fault = "archive" THEN Res(FALSE, t.db) ELSE ArchiveAgreement(t.db, id, reason)
    IN IF found
       THEN [db |-> a.db, wu |-> u2, found |-> TRUE, arch |-> a.ok,
             spawn |-> writable,
             defer |-> (rec.pver < 2 \/ (rec.bc /\ ~writable))]
       ELSE [db |-> t.db, wu |-> wu, found |-> FALSE, arch |-> FALSE,
             spawn |-> FALSE, defer |-> FALSE]

\* variant of CancelAgreement that deletes the workload usage record whatever
\* its reqs_not_met says
CancelAgreementDeleteUsage(id, reason, fault, writable) ==
    LET t == IF fault = "timedout" THEN Res(FALSE, ag) ELSE AgreementTimedout(ag, id)
        found == fault # "find" /\ Unarchived(t.db, id)
        rec == t.db[id]
        u1 == IF fault = "wu" THEN [ok |-> FALSE, wu |-> wu] ELSE UpdateWUAgreementId(wu, NoId)
        u2 == IF u1.ok THEN DeleteWorkloadUsage(u1.wu) ELSE u1.wu
        a == IF fault = "archive" THEN Res(FALSE, t.db) ELSE ArchiveAgreement(t.db, id, reason)
    IN IF found
       THEN [db |-> a.db, wu |-> u2, found |-> TRUE, arch |-> a.ok,
             spawn |-> (CanCancelNow(rec, writable) \/ ~rec.cpa),
             defer |-> (rec.pver < 2 \/ (rec.bc /\ ~writable))]
       ELSE [db |-> t.db, wu |-> wu, found |-> FALSE, arch |-> FALSE,
             spawn |-> FALSE, defer |-> FALSE]

\* CancelAgreement(id, reason): the store and workload usage after it, and
\* whether it spawned TerminateAgreement / deferred an AsyncCancelAgreement
CancelAgreement(id, reason, fault, writable) ==
    LET t == IF fault = "timedout" THEN Res(FALSE, ag) ELSE AgreementTimedout(ag, id)
        found == fault # "find" /\ Unarchived(t.db, id)
        rec == t.db[id]
        u1 == IF fault = "wu" THEN [ok |-> FALSE, wu |-> wu] ELSE UpdateWUAgreementId(wu, NoId)
        u2 == IF u1.ok /\ u1.wu.rnm THEN DeleteWorkloadUsage(u1.wu) ELSE u1.wu
        a == IF fault = "archive" THEN Res(FALSE, t.db) ELSE ArchiveAgreement(t.db, id, reason)
    IN IF found
       THEN [db |-> a.db, wu |-> u2, found |-> TRUE, arch |-> a.ok,
             spawn |-> (CanCancelNow(rec, writable) \/ ~rec.cpa),
             defer |-> (rec.pver < 2 \/ (rec.bc /\ ~writable))]
       ELSE [db |-> t.db, wu |-> wu, found |-> FALSE, arch |-> FALSE,
             spawn |-> FALSE, defer |-> FALSE]

\* a Cancel event: CancelAgreementWithLock, lines 568-570
StartCancel(w) ==
    /\ CanStart(w)
    /\ Scripted("cancel")
    /\ \E id \in known :
         /\ lockMap' = getAgreementLockMap(lockMap, w, id)
         /\ Set(w, [Idle EXCEPT !.pc = "c_lock", !.id = id,
                                !.reason = TERM_REASON_OTHER, !.ret = "cancel",
                                !.lock = getAgreementLock(lockMap, w, id)])
    /\ nev' = nev + 1
    /\ UNCHANGED <<holder, ag, wu, policy, known, nextId, persisted, term, defq, env, eth, pull>>

\* CancelAgreementWithLock, lines 571-576
CancelBody(w) ==
    /\ wk[w].pc = "c_lock"
    /\ holder[wk[w].lock] = "free"
    /\ \E fault \in CancelFaults, writable \in env.writable :
         LET c == CancelAgreement(wk[w].id, wk[w].reason, fault, writable) IN
         /\ ag' = c.db
         /\ wu' = c.wu
         /\ term' = IF c.spawn THEN Bump(term, wk[w].id) ELSE term
         /\ defq' = IF c.defer THEN Bump(defq, wk[w].id) ELSE defq
         /\ Set(w, [wk[w] EXCEPT !.pc = "c_del", !.cFound = c.found, !.cArch = c.arch])
    /\ UNCHANGED <<lockMap, holder, policy, known, nextId, persisted, nev, env, eth, pull>>

\* variant of CancelDelete that leaves the loop over the agreements after the
\* first one
CancelDeleteFirstOnly(w) ==
    /\ wk[w].pc = "c_del"
    /\ lockMap' = deleteAgreementLock(lockMap, wk[w].id)
    /\ Set(w, IF wk[w].ret = "reply"
              THEN [wk[w] EXCEPT !.pc = "r_end", !.lock = 0, !.ackValid = FALSE]
              ELSE IF wk[w].ret = "upgrade"
              THEN [wk[w] EXCEPT !.pc = "u_fin", !.lock = 0]
              ELSE Idle)
    /\ UNCHANGED <<holder, ag, wu, policy, known, nextId, persisted, term, defq, nev,
                   env, eth, pull>>

\* CancelAgreementWithLock, lines 578-579, and the return to the caller
CancelDelete(w) ==
    /\ wk[w].pc = "c_del"
    /\ LET del == deleteAgreementLock(lockMap, wk[w].id) IN
       IF wk[w].ret = "upgrade" /\ wk[w].todo # <<>>
       THEN LET nxt == Head(wk[w].todo) IN
            /\ lockMap' = getAgreementLockMap(del, w, nxt)
            /\ Set(w, [wk[w] EXCEPT !.pc = "c_lock", !.id = nxt, !.todo = Tail(wk[w].todo),
                                    !.lock = getAgreementLock(del, w, nxt)])
       ELSE /\ lockMap' = del
            /\ Set(w, IF wk[w].ret = "reply"
                      THEN [wk[w] EXCEPT !.pc = "r_end", !.lock = 0, !.ackValid = FALSE]
                      ELSE IF wk[w].ret = "upgrade"
                      THEN [wk[w] EXCEPT !.pc = "u_fin", !.lock = 0]
                      ELSE Idle)
    /\ UNCHANGED <<holder, ag, wu, policy, known, nextId, persisted, term, defq, nev,
                   env, eth, pull>>

\* variant of ExternalCancel that drops the command when the ledger is not
\* writable
ExternalCancelNoRedefer(id) ==
    /\ defq[id] > 0
    /\ \E w \in Workers : Available(w)
    /\ \E writable \in env.writable, fault \in env.lookup :
         /\ defq' = [defq EXCEPT ![id] = @ - 1]
         /\ term' = IF fault = "find" \/ ag[id].state = "None" \/ ~writable
                    THEN term ELSE Bump(term, id)
    /\ UNCHANGED <<wk, lockMap, holder, ag, wu, policy, known, nextId, persisted, nev,
                   env, eth, pull>>

\* ExternalCancel: a deferred AsyncCancelAgreement command is executed
ExternalCancel(id) ==
    /\ defq[id] > 0
    /\ \E w \in Workers : Available(w)
    /\ \E writable \in env.writable, fault \in env.lookup :
         IF fault = "find" \/ ag[id].state = "None"
         THEN /\ defq' = [defq EXCEPT ![id] = @ - 1]
              /\ term' = term
         ELSE IF writable
         THEN /\ defq' = [defq EXCEPT ![id] = @ - 1]
              /\ term' = Bump(term, id)
         ELSE UNCHANGED <<defq, term>>
    /\ UNCHANGED <<wk, lockMap, holder, ag, wu, policy, known, nextId, persisted, nev,
                   env, eth, pull>>

----------------------------------------------------------------------------
(* HandleAgreementReply *)

\* a Reply event, lines 345-361
StartReply(w) ==
    /\ CanStart(w)
    /\ Scripted("reply")
    /\ \E id \in known, acc \in BOOLEAN, v \in env.vers :
         /\ lockMap' = getAgreementLockMap(lockMap, w, id)
         /\ Set(w, [Idle EXCEPT !.pc = "r_lock", !.id = id, !.acc = acc,
                                !.ver = v, !.sendReply = TRUE,
                                !.replay = (acc /\ persisted[id] > 0),
                                !.lock = getAgreementLock(lockMap, w, id)])
    /\ nev' = nev + 1
    /\ UNCHANGED <<holder, ag, wu, policy, known, nextId, persisted, term, defq, env, eth, pull>>

\* variant of ReplyFind that leaves sendReply set for a duplicate
ReplyFindAckDup(w) ==
    /\ wk[w].pc = "r_lock"
    /\ wk[w].acc
    /\ holder[wk[w].lock] = "free"
    /\ holder' = Lock(w)
    /\ \E fault \in {"none", "find"} :
         LET id == wk[w].id IN
         Set(w, IF fault = "find" \/ ~Unarchived(ag, id)
                THEN [wk[w] EXCEPT !.pc = "r_end"]
                ELSE IF AlreadyReceivedReply(ag[id])
                THEN [wk[w] EXCEPT !.pc = "r_end", !.dup = TRUE]
                ELSE IF ~ag[id].prop
                THEN [wk[w] EXCEPT !.pc = "r_end"]
                ELSE [wk[w] EXCEPT !.pc = "r_persist", !.wl = ag[id].wlprio])
    /\ UNCHANGED <<lockMap, ag, wu, policy, known, nextId, persisted, term, defq, nev,
                   env, eth, pull>>

\* variant of ReplyFind that sends nothing when the agreement is not found
ReplyFindSilentAbsent(w) ==
    /\ wk[w].pc = "r_lock"
    /\ wk[w].acc
    /\ holder[wk[w].lock] = "free"
    /\ holder' = Lock(w)
    /\ \E fault \in {"none", "find"} :
         LET id == wk[w].id IN
         Set(w, IF fault = "find"
                THEN [wk[w] EXCEPT !.pc = "r_end"]
                ELSE IF ~Unarchived(ag, id)
                THEN [wk[w] EXCEPT !.pc = "r_end", !.sendReply = FALSE]
                ELSE IF AlreadyReceivedReply(ag[id])
                THEN [wk[w] EXCEPT !.pc = "r_end", !.dup = TRUE, !.sendReply = FALSE]
                ELSE IF ~ag[id].prop
                THEN [wk[w] EXCEPT !.pc = "r_end"]
                ELSE [wk[w] EXCEPT !.pc = "r_persist", !.wl = ag[id].wlprio])
    /\ UNCHANGED <<lockMap, ag, wu, policy, known, nextId, persisted, term, defq, nev,
                   env, eth, pull>>

\* lines 354-379: the lock, the lookup, the duplicate check, the parse
ReplyFind(w) ==
    /\ wk[w].pc = "r_lock"
    /\ wk[w].acc
    /\ holder[wk[w].lock] = "free"
    /\ holder' = Lock(w)
    /\ \E fault \in {"none", "find"} :
         LET id == wk[w].id IN
         Set(w, IF fault = "find" \/ ~Unarchived(ag, id)
                THEN [wk[w] EXCEPT !.pc = "r_end"]
                ELSE IF AlreadyReceivedReply(ag[id])
                THEN [wk[w] EXCEPT !.pc = "r_end", !.dup = TRUE, !.sendReply = FALSE]
                ELSE IF ~ag[id].prop
                THEN [wk[w] EXCEPT !.pc = "r_end"]
                ELSE [wk[w] EXCEPT !.pc = "r_persist", !.wl = ag[id].wlprio])
    /\ UNCHANGED <<lockMap, ag, wu, policy, known, nextId, persisted, term, defq, nev,
                   env, eth, pull>>

\* variant of ReplyPersist that goes on when RecordConsumerAgreementState fails
ReplyPersistIgnoreRecord(w) ==
    /\ wk[w].pc = "r_persist"
    /\ \E fault \in {"none", "persist", "record", "policy", "wufind"} :
         LET id == wk[w].id
             r == IF fault = "persist" THEN Res(FALSE, ag) ELSE PersistReply(ag, id, wk[w].ver)
         IN /\ ag' = r.db
            /\ persisted' = IF r.ok THEN Bump(persisted, id) ELSE persisted
            /\ Set(w, IF ~r.ok THEN [wk[w] EXCEPT !.pc = "r_end"]
                      ELSE IF fault = "policy"
                      THEN [wk[w] EXCEPT !.pc = "r_end", !.pers = TRUE, !.recorded = TRUE]
                      ELSE [wk[w] EXCEPT !.pc = "r_wu", !.pers = TRUE,
                                         !.recorded = (fault # "record"),
                                         !.ackValid = TRUE, !.wuErr = (fault = "wufind"),
                                         !.snap = IF fault = "wufind" THEN NoWU ELSE wu])
    /\ UNCHANGED <<lockMap, holder, wu, policy, known, nextId, term, defq, nev, env, eth, pull>>

\* lines 381-398: PersistReply, RecordConsumerAgreementState, the consumer
\* policy and the lookup of the workload usage record
ReplyPersist(w) ==
    /\ wk[w].pc = "r_persist"
    /\ \E fault \in {"none", "persist", "record", "policy", "wufind"} :
         LET id == wk[w].id
             r == IF fault = "persist" THEN Res(FALSE, ag) ELSE PersistReply(ag, id, wk[w].ver)
         IN /\ ag' = r.db
            /\ persisted' = IF r.ok THEN Bump(persisted, id) ELSE persisted
            /\ Set(w, IF ~r.ok THEN [wk[w] EXCEPT !.pc = "r_end"]
                      ELSE IF fault = "record" THEN [wk[w] EXCEPT !.pc = "r_end", !.pers = TRUE]
                      ELSE IF fault = "policy"
                      THEN [wk[w] EXCEPT !.pc = "r_end", !.pers = TRUE, !.recorded = TRUE]
                      ELSE [wk[w] EXCEPT !.pc = "r_wu", !.pers = TRUE, !.recorded = TRUE,
                                         !.ackValid = TRUE, !.wuErr = (fault = "wufind"),
                                         !.snap = IF fault = "wufind" THEN NoWU ELSE wu])
    /\ UNCHANGED <<lockMap, holder, wu, policy, known, nextId, term, defq, nev, env, eth, pull>>

\* variant of Reconcile that creates the record with reqs_not_met set
ReconcileReqsNotMet(w, fault) ==
    LET s == wk[w].snap
        id == wk[w].id
        p == wk[w].wl
        top == NextHighestPriorityWorkload(policy, 0, 0, FALSE)
        keep == [wu |-> wu, valid |-> TRUE]
    IN IF wk[w].wuErr THEN keep
       ELSE IF ~s.present
       THEN IF policy[top].prio # p THEN [wu |-> wu, valid |-> FALSE]
            ELSE IF p # 0 /\ fault # "wu"
            THEN [wu |-> NewWorkloadUsage(wu, TRUE, p, TRUE, id).wu, valid |-> TRUE]
            ELSE keep
       ELSE IF fault = "wu" THEN keep
       ELSE LET u1 == IF ~s.pol THEN UpdatePolicy(wu).wu ELSE wu
                u2 == IF ~s.dr
                      THEN IF p # s.prio THEN UpdatePriority(u1, p, id).wu
                           ELSE UpdateRetryCount(u1, s.rc + 1, id).wu
                      ELSE UpdateWUAgreementId(u1, id).wu
            IN [wu |-> u2, valid |-> TRUE]

\* variant of Reconcile that does not compare the proposal's workload with the
\* highest priority workload
ReconcileAcceptMismatch(w, fault) ==
    LET s == wk[w].snap
        id == wk[w].id
        p == wk[w].wl
        keep == [wu |-> wu, valid |-> TRUE]
    IN IF wk[w].wuErr THEN keep
       ELSE IF ~s.present
       THEN IF p # 0 /\ fault # "wu"
            THEN [wu |-> NewWorkloadUsage(wu, TRUE, p, FALSE, id).wu, valid |-> TRUE]
            ELSE keep
       ELSE IF fault = "wu" THEN keep
       ELSE LET u1 == IF ~s.pol THEN UpdatePolicy(wu).wu ELSE wu
                u2 == IF ~s.dr
                      THEN IF p # s.prio THEN UpdatePriority(u1, p, id).wu
                           ELSE UpdateRetryCount(u1, s.rc + 1, id).wu
                      ELSE UpdateWUAgreementId(u1, id).wu
            IN [wu |-> u2, valid |-> TRUE]

\* variant of Reconcile that leaves the retry count alone
ReconcileNoRetryCount(w, fault) ==
    LET s == wk[w].snap
        id == wk[w].id
        p == wk[w].wl
        top == NextHighestPriorityWorkload(policy, 0, 0, FALSE)
        keep == [wu |-> wu, valid |-> TRUE]
    IN IF wk[w].wuErr THEN keep
       ELSE IF ~s.present
       THEN IF policy[top].prio # p THEN [wu |-> wu, valid |-> FALSE]
            ELSE IF p # 0 /\ fault # "wu"
            THEN [wu |-> NewWorkloadUsage(wu, TRUE, p, FALSE, id).wu, valid |-> TRUE]
            ELSE keep
       ELSE IF fault = "wu" THEN keep
       ELSE LET u1 == IF ~s.pol THEN UpdatePolicy(wu).wu ELSE wu
                u2 == IF ~s.dr /\ p # s.prio THEN UpdatePriority(u1, p, id).wu
                      ELSE UpdateWUAgreementId(u1, id).wu
            IN [wu |-> u2, valid |-> TRUE]

\* lines 399-431: the workload usage record is created or updated
Reconcile(w, fault) ==
    LET s == wk[w].snap
        id == wk[w].id
        p == wk[w].wl
        top == NextHighestPriorityWorkload(policy, 0, 0, FALSE)
        keep == [wu |-> wu, valid |-> TRUE]
    IN IF wk[w].wuErr THEN keep
       ELSE IF ~s.present
       THEN IF policy[top].prio # p THEN [wu |-> wu, valid |-> FALSE]
            ELSE IF p # 0 /\ fault # "wu"
            THEN [wu |-> NewWorkloadUsage(wu, TRUE, p, FALSE, id).wu, valid |-> TRUE]
            ELSE keep
       ELSE IF fault = "wu" THEN keep
       ELSE LET u1 == IF ~s.pol THEN UpdatePolicy(wu).wu ELSE wu
                u2 == IF ~s.dr
                      THEN IF p # s.prio THEN UpdatePriority(u1, p, id).wu
                           ELSE UpdateRetryCount(u1, s.rc + 1, id).wu
                      ELSE UpdateWUAgreementId(u1, id).wu
            IN [wu |-> u2, valid |-> TRUE]

\* variant of ReplyReconcile that keeps the lock over the blockchain write
ReplyReconcileHoldingLock(w) ==
    /\ wk[w].pc = "r_wu"
    /\ \E fault \in {"none", "wu"}, send \in Sends :
         LET r == Reconcile(w, fault) IN
         /\ wu' = r.wu
         /\ IF r.valid
            THEN Set(w, [wk[w] EXCEPT !.pc = "r_post", !.posAck = send, !.dropped = TRUE,
                                      !.snap = NoWU, !.lock = 0])
            ELSE Set(w, [wk[w] EXCEPT !.pc = "r_end", !.ackValid = FALSE,
                                      !.wuInvalid = TRUE, !.snap = NoWU])
         /\ holder' = holder
    /\ UNCHANGED <<lockMap, ag, policy, known, nextId, persisted, term, defq, nev, env, eth, pull>>

\* lines 399-450: reconciliation, then the positive ack, the message is
\* deleted and the lock is dropped before the blockchain write
ReplyReconcile(w) ==
    /\ wk[w].pc = "r_wu"
    /\ \E fault \in {"none", "wu"}, send \in Sends :
         LET r == Reconcile(w, fault) IN
         /\ wu' = r.wu
         /\ IF r.valid
            THEN /\ Set(w, [wk[w] EXCEPT !.pc = "r_post", !.posAck = send, !.dropped = TRUE,
                                         !.snap = NoWU, !.lock = 0])
                 /\ holder' = Unlock(w)
            ELSE /\ Set(w, [wk[w] EXCEPT !.pc = "r_end", !.ackValid = FALSE,
                                         !.wuInvalid = TRUE, !.snap = NoWU])
                 /\ holder' = holder
    /\ UNCHANGED <<lockMap, ag, policy, known, nextId, persisted, term, defq, nev, env, eth, pull>>

\* variant of ReplyPost that cancels with another termination reason
ReplyPostOtherReason(w) ==
    /\ wk[w].pc = "r_post"
    /\ \E ok \in BOOLEAN :
         IF ok
         THEN /\ Set(w, [wk[w] EXCEPT !.pc = "r_end", !.posted = TRUE])
              /\ lockMap' = lockMap
         ELSE /\ Set(w, [wk[w] EXCEPT !.pc = "c_lock", !.posted = TRUE, !.ret = "reply",
                                      !.reason = TERM_REASON_OTHER,
                                      !.lock = getAgreementLock(lockMap, w, wk[w].id)])
              /\ lockMap' = getAgreementLockMap(lockMap, w, wk[w].id)
    /\ UNCHANGED <<holder, ag, wu, policy, known, nextId, persisted, term, defq, nev,
                   env, eth, pull>>

\* lines 452-456: PostReply returns; on failure CancelAgreementWithLock is
\* called (lines 568-570)
ReplyPost(w) ==
    /\ wk[w].pc = "r_post"
    /\ \E ok \in BOOLEAN :
         IF ok
         THEN /\ Set(w, [wk[w] EXCEPT !.pc = "r_end", !.posted = TRUE])
              /\ lockMap' = lockMap
         ELSE /\ Set(w, [wk[w] EXCEPT !.pc = "c_lock", !.posted = TRUE, !.ret = "reply",
                                      !.reason = TERM_REASON_CANCEL_BC_WRITE_FAILED,
                                      !.lock = getAgreementLock(lockMap, w, wk[w].id)])
              /\ lockMap' = getAgreementLockMap(lockMap, w, wk[w].id)
    /\ UNCHANGED <<holder, ag, wu, policy, known, nextId, persisted, term, defq, nev,
                   env, eth, pull>>

\* variant of ReplyNegative that cancels without taking the lock
ReplyNegativeNoLock(w) ==
    /\ wk[w].pc = "r_lock"
    /\ ~wk[w].acc
    /\ holder' = holder
    /\ \E fault \in CancelFaults, writable \in env.writable :
         LET c == CancelAgreement(wk[w].id, TERM_REASON_NEGATIVE_REPLY, fault, writable) IN
         /\ ag' = c.db
         /\ wu' = c.wu
         /\ term' = IF c.spawn THEN Bump(term, wk[w].id) ELSE term
         /\ defq' = IF c.defer THEN Bump(defq, wk[w].id) ELSE defq
         /\ Set(w, [wk[w] EXCEPT !.pc = "r_end", !.reason = TERM_REASON_NEGATIVE_REPLY,
                                 !.cFound = c.found, !.cArch = c.arch])
    /\ UNCHANGED <<lockMap, policy, known, nextId, persisted, nev, env, eth, pull>>

\* lines 354 and 470-474: a rejection from the producer cancels the agreement
ReplyNegative(w) ==
    /\ wk[w].pc = "r_lock"
    /\ ~wk[w].acc
    /\ holder[wk[w].lock] = "free"
    /\ holder' = Lock(w)
    /\ \E fault \in CancelFaults, writable \in env.writable :
         LET c == CancelAgreement(wk[w].id, TERM_REASON_NEGATIVE_REPLY, fault, writable) IN
         /\ ag' = c.db
         /\ wu' = c.wu
         /\ term' = IF c.spawn THEN Bump(term, wk[w].id) ELSE term
         /\ defq' = IF c.defer THEN Bump(defq, wk[w].id) ELSE defq
         /\ Set(w, [wk[w] EXCEPT !.pc = "r_end", !.reason = TERM_REASON_NEGATIVE_REPLY,
                                 !.cFound = c.found, !.cArch = c.arch])
    /\ UNCHANGED <<lockMap, policy, known, nextId, persisted, nev, env, eth, pull>>

\* line 462: the handler sends Confirm(false) on its way out
NegAck(w) == wk[w].acc /\ ~wk[w].ackValid /\ wk[w].sendReply

\* lines 461-488: the negative ack, the lock and the exchange message
ReplyEnd(w) ==
    /\ wk[w].pc = "r_end"
    /\ Set(w, Idle)
    /\ holder' = IF wk[w].dropped THEN holder ELSE Unlock(w)
    /\ UNCHANGED <<lockMap, ag, wu, policy, known, nextId, persisted, term, defq, nev,
                   env, eth, pull>>

----------------------------------------------------------------------------
(* HandleDataReceivedAck *)

\* a DataReceivedAck event, lines 494-503; a message that does not validate
\* is discarded
StartAck(w) ==
    /\ CanStart(w)
    /\ Scripted("ack")
    /\ \E id \in known, valid \in BOOLEAN :
         IF valid
         THEN /\ lockMap' = getAgreementLockMap(lockMap, w, id)
              /\ Set(w, [Idle EXCEPT !.pc = "d_lock", !.id = id,
                                     !.lock = getAgreementLock(lockMap, w, id)])
         ELSE /\ lockMap' = lockMap
              /\ Set(w, Idle)
    /\ nev' = nev + 1
    /\ UNCHANGED <<holder, ag, wu, policy, known, nextId, persisted, term, defq, env, eth, pull>>

\* lines 504-515: the lock, the lookup, DataNotification and the unlock
AckBody(w) ==
    /\ wk[w].pc = "d_lock"
    /\ holder[wk[w].lock] = "free"
    /\ \E fault \in {"none", "find", "notify"} :
         LET id == wk[w].id IN
         ag' = IF fault = "none" /\ Unarchived(ag, id) THEN DataNotification(ag, id).db ELSE ag
    /\ Set(w, Idle)
    /\ UNCHANGED <<lockMap, holder, wu, policy, known, nextId, persisted, term, defq,
                   nev, env, eth, pull>>

----------------------------------------------------------------------------
(* InitiateNewAgreement *)

IterCap == MaxWorkloads + 3

\* an Initiate event, lines 140-172: the agreement id, its lock, the
\* device's policies
StartInitiate(w) ==
    /\ CanStart(w)
    /\ Scripted("initiate")
    /\ nextId <= Len(env.ids)
    /\ \E bc \in env.bcs, fault \in {"none", "genid", "device"} :
         LET id == env.ids[nextId]
             lk == getAgreementLock(lockMap, w, id)
         IN IF fault = "genid"
            THEN /\ Set(w, Idle)
                 /\ UNCHANGED <<lockMap, holder, nextId>>
            ELSE /\ nextId' = nextId + 1
                 /\ lockMap' = getAgreementLockMap(lockMap, w, id)
                 /\ holder' = IF fault = "device" THEN holder ELSE [holder EXCEPT ![lk] = w]
                 /\ Set(w, IF fault = "device" THEN Idle
                           ELSE [Idle EXCEPT !.pc = "i_sel", !.id = id, !.lock = lk, !.bc = bc,
                                             !.afterUp = UpgradeHandled])
    /\ nev' = nev + 1
    /\ UNCHANGED <<ag, wu, policy, known, persisted, term, defq, env, eth, pull>>

\* lines 183-192: the workload the usage record selects
ChooseWorkload(u, expired) ==
    IF ~u.present THEN NextHighestPriorityWorkload(policy, 0, 0, FALSE)
    ELSE IF u.dr THEN NextHighestPriorityWorkload(policy, u.prio, 0, expired)
    ELSE NextHighestPriorityWorkload(policy, u.prio, u.rc + 1, expired)

\* variant of InitSelect that exits only when no workload is returned
InitSelectNoExit(w) ==
    /\ wk[w].pc = "i_sel"
    /\ \E fault \in {"none", "wufind"}, expired \in BOOLEAN :
         LET workload == ChooseWorkload(wu, expired) IN
         IF fault = "wufind"
         THEN /\ Set(w, Idle)
              /\ holder' = Unlock(w)
              /\ wu' = wu
         ELSE IF workload = 0
         THEN /\ Set(w, Idle)
              /\ holder' = Unlock(w)
              /\ wu' = DeleteWorkloadUsage(wu)
         ELSE /\ Set(w, [wk[w] EXCEPT !.pc = "i_chk", !.wl = workload,
                                      !.iter = Cap(@ + 1, IterCap)])
              /\ UNCHANGED <<holder, wu>>
    /\ UNCHANGED <<lockMap, ag, policy, known, nextId, persisted, term, defq, nev, env, eth, pull>>

\* lines 181-203: the top of the selection loop
InitSelect(w) ==
    /\ wk[w].pc = "i_sel"
    /\ \E fault \in {"none", "wufind"}, expired \in BOOLEAN :
         LET workload == ChooseWorkload(wu, expired) IN
         IF fault = "wufind"
         THEN /\ Set(w, Idle)
              /\ holder' = Unlock(w)
              /\ wu' = wu
         ELSE IF wk[w].last = workload
         THEN /\ Set(w, Idle)
              /\ holder' = Unlock(w)
              /\ wu' = DeleteWorkloadUsage(wu)
         ELSE /\ Set(w, [wk[w] EXCEPT !.pc = "i_chk", !.wl = workload,
                                      !.iter = Cap(@ + 1, IterCap)])
              /\ UNCHANGED <<holder, wu>>
    /\ UNCHANGED <<lockMap, ag, policy, known, nextId, persisted, term, defq, nev, env, eth, pull>>

\* variant of RememberUnsupported that does not bump the retry count
RememberUnsupportedNoBump(u, id, workload, first) ==
    IF HasEmptyPriority(policy, workload) THEN [ok |-> TRUE, wu |-> u]
    ELSE IF ~first THEN UpdatePriority(u, policy[workload].prio, id)
    ELSE NewWorkloadUsage(u, FALSE, policy[workload].prio, TRUE, id)

\* variant of RememberUnsupported that also remembers an empty priority
RememberUnsupportedAny(u, id, workload, first) ==
    LET r == IF ~first THEN UpdatePriority(u, policy[workload].prio, id)
             ELSE NewWorkloadUsage(u, FALSE, policy[workload].prio, TRUE, id)
    IN IF ~r.ok THEN r
       ELSE UpdateRetryCount(r.wu, policy[workload].retries + 1, id)

\* lines 255-272: an unsupported workload is remembered in the usage record
RememberUnsupported(u, id, workload, first) ==
    IF HasEmptyPriority(policy, workload) THEN [ok |-> TRUE, wu |-> u]
    ELSE LET r1 == IF ~first THEN UpdatePriority(u, policy[workload].prio, id)
                   ELSE NewWorkloadUsage(u, FALSE, policy[workload].prio, TRUE, id)
         IN IF ~r1.ok THEN r1
            ELSE UpdateRetryCount(r1.wu, policy[workload].retries + 1, id)

\* lines 210-298: the workload's details and the device's support for it
InitCheck(w) ==
    /\ wk[w].pc = "i_chk"
    /\ \E fault \in {"none", "getwl", "wu"}, supported \in BOOLEAN :
         LET workload == wk[w].wl
             r == RememberUnsupported(wu, wk[w].id, workload, wk[w].last = 0)
         IN IF fault = "getwl"
            THEN /\ Set(w, Idle)
                 /\ holder' = Unlock(w)
                 /\ wu' = wu
            ELSE IF supported
            THEN /\ Set(w, [wk[w] EXCEPT !.pc = "i_fin"])
                 /\ UNCHANGED <<holder, wu>>
            ELSE IF fault = "wu" /\ ~HasEmptyPriority(policy, workload)
            THEN /\ Set(w, Idle)
                 /\ holder' = Unlock(w)
                 /\ wu' = wu
            ELSE IF ~r.ok
            THEN /\ Set(w, Idle)
                 /\ holder' = Unlock(w)
                 /\ wu' = r.wu
            ELSE /\ Set(w, [wk[w] EXCEPT !.pc = "i_sel", !.last = workload])
                 /\ wu' = r.wu
                 /\ holder' = holder
    /\ UNCHANGED <<lockMap, ag, policy, known, nextId, persisted, term, defq, nev, env, eth, pull>>

\* lines 301-341: the HA group, the ignored devices, the Pending record, the
\* proposal and the stored proposal; the deferred unlock
InitFinish(w) ==
    /\ wk[w].pc = "i_fin"
    /\ \E out \in {"ok", "ha", "attempt", "target", "initiate", "persist"} :
         LET id == wk[w].id
             a == AgreementAttempt(ag, id, wk[w].bc)
         IN IF out \in {"ha", "attempt"} \/ ~a.ok
            THEN UNCHANGED <<ag, known>>
            ELSE /\ known' = known \cup {id}
                 /\ ag' = IF out \in {"target", "persist"} THEN a.db
                          ELSE IF out = "initiate" THEN DeleteAgreement(a.db, id).db
                          ELSE PersistAgreement(a.db, id, policy[wk[w].wl].prio).db
    /\ Set(w, Idle)
    /\ holder' = Unlock(w)
    /\ UNCHANGED <<lockMap, wu, policy, nextId, persisted, term, defq, nev, env, eth, pull>>

\* lines 301-314, the tail of InitiateNewAgreement step by step: the HA
\* group and the ignored devices
InitGate(w) ==
    /\ wk[w].pc = "i_fin"
    /\ \E out \in {"ok", "ha", "ignore"} :
         IF out = "ok"
         THEN /\ Set(w, [wk[w] EXCEPT !.pc = "i_att"])
              /\ holder' = holder
         ELSE /\ Set(w, Idle)
              /\ holder' = Unlock(w)
    /\ UNCHANGED <<lockMap, ag, wu, policy, known, nextId, persisted, term, defq, nev,
                   env, eth, pull>>

\* variant of InitAttempt that goes on without storing the Pending record
InitAttemptNoRecord(w) ==
    /\ wk[w].pc = "i_att"
    /\ Set(w, [wk[w] EXCEPT !.pc = "i_prop"])
    /\ UNCHANGED <<lockMap, holder, ag, wu, policy, known, nextId, persisted, term, defq,
                   nev, env, eth, pull>>

\* lines 317-318: AgreementAttempt stores the Pending record
InitAttempt(w) ==
    /\ wk[w].pc = "i_att"
    /\ \E fault \in {"none", "attempt"} :
         LET id == wk[w].id
             a == AgreementAttempt(ag, id, wk[w].bc)
         IN IF fault = "attempt" \/ ~a.ok
            THEN /\ Set(w, Idle)
                 /\ holder' = Unlock(w)
                 /\ UNCHANGED <<ag, known>>
            ELSE /\ Set(w, [wk[w] EXCEPT !.pc = "i_prop"])
                 /\ ag' = a.db
                 /\ known' = known \cup {id}
                 /\ holder' = holder
    /\ UNCHANGED <<lockMap, wu, policy, nextId, persisted, term, defq, nev, env, eth, pull>>

\* lines 321-333: the message target, then InitiateAgreement dispatches the
\* proposal; a failed InitiateAgreement deletes the Pending record
InitPropose(w) ==
    /\ wk[w].pc = "i_prop"
    /\ \E out \in {"ok", "target", "initiate"} :
         IF out = "ok"
         THEN /\ Set(w, [wk[w] EXCEPT !.pc = "i_pers"])
              /\ UNCHANGED <<ag, holder>>
         ELSE /\ Set(w, Idle)
              /\ holder' = Unlock(w)
              /\ ag' = IF out = "initiate" THEN DeleteAgreement(ag, wk[w].id).db ELSE ag
    /\ UNCHANGED <<lockMap, wu, policy, known, nextId, persisted, term, defq, nev, env, eth, pull>>

\* lines 337-341: PersistAgreement stores the proposal; the deferred unlock
InitPersist(w) ==
    /\ wk[w].pc = "i_pers"
    /\ \E out \in {"ok", "persist"} :
         ag' = IF out = "persist" THEN ag
               ELSE PersistAgreement(ag, wk[w].id, policy[wk[w].wl].prio).db
    /\ Set(w, Idle)
    /\ holder' = Unlock(w)
    /\ UNCHANGED <<lockMap, wu, policy, known, nextId, persisted, term, defq, nev, env, eth, pull>>

----------------------------------------------------------------------------
(* HandleWorkloadUpgrade *)

\* FindAgreements with the device and policy name filter: every record
FindAgreements(db) ==
    SelectSeq(Ids, LAMBDA a : db[a].state # "None")

\* a WorkloadUpgrade event, lines 539-558 and 568-570
StartUpgrade(w) ==
    /\ CanStart(w)
    /\ Scripted("upgrade")
    /\ \E id \in known \cup {NoId}, fault \in {"none", "find"} :
         LET ags == IF id # NoId THEN <<id>>
                    ELSE IF fault = "find" THEN <<>> ELSE FindAgreements(ag)
         IN IF ags = <<>>
            THEN /\ Set(w, [Idle EXCEPT !.pc = "u_fin"])
                 /\ lockMap' = lockMap
            ELSE /\ Set(w, [Idle EXCEPT !.pc = "c_lock", !.ret = "upgrade",
                                        !.reason = TERM_REASON_CANCEL_FORCED_UPGRADE,
                                        !.id = Head(ags), !.todo = Tail(ags),
                                        !.live = IF id # NoId THEN {}
                                                 ELSE {a \in IdSet : Unarchived(ag, a)},
                                        !.lock = getAgreementLock(lockMap, w, Head(ags))])
                 /\ lockMap' = getAgreementLockMap(lockMap, w, Head(ags))
    /\ nev' = nev + 1
    /\ UNCHANGED <<holder, ag, wu, policy, known, nextId, persisted, term, defq, env, eth, pull>>

\* lines 560-564
UpgradeFinish(w) ==
    /\ wk[w].pc = "u_fin"
    /\ \E fault \in {"none", "wu"} :
         wu' = IF fault = "wu" THEN wu ELSE DeleteWorkloadUsage(wu)
    /\ Set(w, Idle)
    /\ UNCHANGED <<lockMap, holder, ag, policy, known, nextId, persisted, term, defq,
                   nev, env, eth, pull>>

----------------------------------------------------------------------------
(* EthBlockchainWorker (ethblockchain/blockchainworker.go) *)

MaxEthEvents == 3

MaxTicks == 2

\* NeedContainer: a blockchain reported as needed stays needed for 300 seconds
NeededWindowS == 300

\* the blockchains of the run, name and org: org "a" has the blockchains "a"
\* and "b"
Chains == {[name |-> "a", org |-> "a"], [name |-> "b", org |-> "a"]}

ChainNames == {c.name : c \in Chains}

Strs == ChainNames \cup {c.org : c \in Chains} \cup {""}

Absent == -1

\* BCInstanceState, the fields the handlers read
NoInst == [tracked |-> FALSE, org |-> "", started |-> FALSE, needsRestart |-> FALSE,
           ready |-> FALSE]

\* NewEthBlockchainWorker: empty instances and neededBCs, not shutting down
NoEth == [instances |-> [n \in ChainNames |-> NoInst],
          needed |-> [o \in Strs |-> [n \in Strs |-> Absent]],
          shutting |-> FALSE, commands |-> <<>>, clock |-> 1, sent |-> 0, ticks |-> 0]

Cmd(type, name, org) == [type |-> type, name |-> name, org |-> org]

\* neededBCs has a map for org
HasOrg(e, org) == \E n \in Strs : e.needed[org][n] # Absent

\* NeedContainer(org, name), lines 205-216
NeedContainer(e, org, name) ==
    IF ~HasOrg(e, org) THEN FALSE
    ELSE IF e.needed[org][name] # Absent
    THEN e.needed[org][name] = 0 \/ e.clock <= e.needed[org][name] + NeededWindowS
    ELSE TRUE

\* handleNewClient, lines 419-447: the instance is tracked and its container is
\* started once; a getEthContainer error deletes the instance
HandleNewClient(e, c, fails) ==
    LET i0 == IF e.instances[c.name].tracked THEN e.instances[c.name]
              ELSE [NoInst EXCEPT !.tracked = TRUE, !.org = c.org]
    IN IF i0.started THEN [e EXCEPT !.instances[c.name] = i0]
       ELSE IF fails THEN [e EXCEPT !.instances[c.name] = NoInst]
       ELSE [e EXCEPT !.instances[c.name] = [i0 EXCEPT !.started = TRUE]]

\* ContainerNotExecutingCommand and TorrentFailureCommand, lines 266-283
HandleNotExecuting(e, c) ==
    LET i0 == e.instances[c.name]
        i1 == IF i0.tracked THEN [i0 EXCEPT !.started = FALSE, !.needsRestart = FALSE] ELSE i0
    IN [e EXCEPT !.instances[c.name] = i1,
                 !.commands = Append(@, Cmd("newclient", c.name, c.org))]

\* RestartContainer, lines 218-238: NeedContainer is called with the container
\* name as its org and the org as its name
RestartContainer(e, c) ==
    IF ~NeedContainer(e, c.name, c.org) THEN e
    ELSE IF e.instances[c.name].tracked
    THEN [e EXCEPT !.instances[c.name] = [NoInst EXCEPT !.tracked = TRUE, !.org = c.org],
                   !.commands = Append(@, Cmd("newclient", c.name, c.org))]
    ELSE e

\* ContainerShutdownCommand, lines 285-291
HandleContainerShutdown(e, c) ==
    IF e.shutting THEN [e EXCEPT !.instances[c.name] = NoInst]
    ELSE RestartContainer(e, c)

\* UpdatedNeededBlockchains, lines 240-252
UpdatedNeededBlockchains(e, c) ==
    [e EXCEPT !.needed[c.org][c.name] = e.clock]

\* AllBlockchainsShutdownCommand, lines 297-299, and StopAllBlockchains,
\* lines 588-598
HandleAllShutdown(e) ==
    [e EXCEPT !.shutting = TRUE, !.needed = [o \in Strs |-> [n \in Strs |-> Absent]]]

StatusOutcomes == {"quiet", "ready", "apidown", "meta"}

\* CheckStatus for one instance, lines 331-415: the client is reported ready,
\* its API is found down after it was ready, or its metadata has changed
CheckInstance(e, name, outcome) ==
    LET i0 == e.instances[name] IN
    IF ~i0.tracked \/ i0.needsRestart THEN e
    ELSE IF outcome = "ready" /\ i0.started
    THEN [e EXCEPT !.instances[name].ready = TRUE]
    ELSE IF outcome = "apidown" /\ i0.ready
    THEN LET e1 == [e EXCEPT !.instances[name] = [NoInst EXCEPT !.tracked = TRUE]] IN
         IF NeedContainer(e1, name, i0.org)
         THEN [e1 EXCEPT !.commands = Append(@, Cmd("newclient", name, i0.org))]
         ELSE e1
    ELSE IF outcome = "meta" /\ i0.started
    THEN [e EXCEPT !.instances[name].needsRestart = TRUE]
    ELSE e

RECURSIVE CheckStatus(_, _, _)

\* CheckStatus, lines 327-417: the instances in the order the map yields them
CheckStatus(e, order, outcome) ==
    IF order = <<>> THEN e
    ELSE CheckStatus(CheckInstance(e, Head(order), outcome[Head(order)]), Tail(order), outcome)

Orders == {o \in [1..Cardinality(ChainNames) -> ChainNames] :
             \A i, j \in DOMAIN o : i # j => o[i] # o[j]}

\* CommandHandler, lines 314-317: with no command left CheckStatus runs
AfterCommand(e1) ==
    IF e1.commands = <<>>
    THEN \E order \in Orders, outcome \in [ChainNames -> StatusOutcomes] :
            eth' = CheckStatus(e1, order, outcome)
    ELSE eth' = e1

Rest(e) == [e EXCEPT !.commands = Tail(@)]

EthFrame ==
    UNCHANGED <<wk, lockMap, holder, ag, wu, policy, known, nextId, persisted, term, defq,
                nev, env, pull>>

\* NewEvent, lines 77-163: a message of the bus becomes a command
EthNewEvent ==
    /\ eth.sent < MaxEthEvents
    /\ \E c \in Chains, type \in {"newclient", "notexec", "shutdown", "needed", "allstop"} :
         eth' = [eth EXCEPT !.commands = Append(@, Cmd(type, IF type = "allstop" THEN "" ELSE c.name,
                                                       IF type = "allstop" THEN "" ELSE c.org)),
                            !.sent = @ + 1]
    /\ EthFrame

\* time passes
EthTick ==
    /\ eth.ticks < MaxTicks
    /\ eth' = [eth EXCEPT !.clock = @ + NeededWindowS, !.ticks = @ + 1]
    /\ EthFrame

\* CommandHandler, case *NewClientCommand
EthNewClient ==
    /\ eth.commands # <<>> /\ Head(eth.commands).type = "newclient"
    /\ \E fails \in BOOLEAN : AfterCommand(HandleNewClient(Rest(eth), Head(eth.commands), fails))
    /\ EthFrame

\* CommandHandler, cases *ContainerNotExecutingCommand and *TorrentFailureCommand
EthNotExecuting ==
    /\ eth.commands # <<>> /\ Head(eth.commands).type = "notexec"
    /\ AfterCommand(HandleNotExecuting(Rest(eth), Head(eth.commands)))
    /\ EthFrame

\* CommandHandler, case *ContainerShutdownCommand
EthContainerShutdown ==
    /\ eth.commands # <<>> /\ Head(eth.commands).type = "shutdown"
    /\ AfterCommand(HandleContainerShutdown(Rest(eth), Head(eth.commands)))
    /\ EthFrame

\* CommandHandler, case *ReportNeededBlockchainsCommand
EthReportNeeded ==
    /\ eth.commands # <<>> /\ Head(eth.commands).type = "needed"
    /\ AfterCommand(UpdatedNeededBlockchains(Rest(eth), Head(eth.commands)))
    /\ EthFrame

\* CommandHandler, case *AllBlockchainsShutdownCommand
EthAllShutdown ==
    /\ eth.commands # <<>> /\ Head(eth.commands).type = "allstop"
    /\ AfterCommand(HandleAllShutdown(Rest(eth)))
    /\ EthFrame

----------------------------------------------------------------------------
(* pullImageFromRepos (torrent/imagepull.go) *)

MaxServices == 3

maxPullAttempts == 3

Services == 1..MaxServices

\* a service of the deployment has an image "repo:tag" or an image without tag
ImageKinds == {"tagged", "untagged"}

\* pullImageFromRepos has not been called
NoPull == [pc |-> "idle", images |-> [s \in Services |-> "none"], left |-> {}, cur |-> 0,
           pullAttempts |-> 0, calls |-> [s \in Services |-> 0], pulled |-> {},
           ret |-> "none"]

PullFrame ==
    UNCHANGED <<wk, lockMap, holder, ag, wu, policy, known, nextId, persisted, term, defq,
                nev, env, eth>>

\* the call, lines 38-65: a deployment description with its services
PullStart ==
    /\ pull.pc = "idle"
    /\ \E images \in [Services -> ImageKinds \cup {"none"}] :
         pull' = [pull EXCEPT !.pc = "range", !.images = images,
                              !.left = {s \in Services : images[s] # "none"}]
    /\ PullFrame

\* lines 68-79 and 123: the next service of the map, its attempt counter and
\* the repository and tag of its image; nil once every service was visited
PullRange ==
    /\ pull.pc = "range"
    /\ IF pull.left = {}
       THEN pull' = [pull EXCEPT !.pc = "returned", !.ret = "nil", !.cur = 0]
       ELSE \E s \in pull.left :
              IF pull.images[s] = "untagged"
              THEN pull' = [pull EXCEPT !.pc = "returned", !.ret = "panic", !.cur = s,
                                        !.left = @ \ {s}]
              ELSE pull' = [pull EXCEPT !.pc = "attempt", !.cur = s, !.left = @ \ {s},
                                        !.pullAttempts = 0]
    /\ PullFrame

\* variant of PullAttempt that goes on to the next service when the
\* attempts of one service are used up
PullAttemptSkip ==
    /\ pull.pc = "attempt"
    /\ \E ok \in BOOLEAN :
         LET s == pull.cur
             called == [pull EXCEPT !.calls[s] = @ + 1]
         IN IF pull.pullAttempts > maxPullAttempts
            THEN pull' = [pull EXCEPT !.pc = "range"]
            ELSE IF ok
            THEN pull' = [called EXCEPT !.pc = "range", !.pulled = @ \cup {s}]
            ELSE pull' = [called EXCEPT !.pullAttempts = @ + 1]
    /\ PullFrame

\* lines 89-119: one pass of the attempt loop, a PullImage call
PullAttempt ==
    /\ pull.pc = "attempt"
    /\ \E ok \in BOOLEAN :
         LET s == pull.cur
             called == [pull EXCEPT !.calls[s] = @ + 1]
         IN IF pull.pullAttempts > maxPullAttempts
            THEN pull' = [pull EXCEPT !.pc = "range"]
            ELSE IF ok
            THEN pull' = [called EXCEPT !.pc = "range", !.pulled = @ \cup {s}]
            ELSE IF pull.pullAttempts + 1 # maxPullAttempts
            THEN pull' = [called EXCEPT !.pullAttempts = @ + 1]
            ELSE pull' = [called EXCEPT !.pullAttempts = @ + 1, !.pc = "returned",
                                        !.ret = "err"]
    /\ PullFrame

----------------------------------------------------------------------------
(* The worker pool *)

Policy0 == <<Workload(1, 2), Workload(2, 0)>>

Init ==
    /\ wk = [w \in Workers |-> Idle]
    /\ lockMap = [a \in IdSet |-> 0]
    /\ holder = [i \in Inst |-> "free"]
    /\ ag = [a \in IdSet |-> NoAg]
    /\ wu = NoWU
    /\ policy = Policy0
    /\ known = {}
    /\ nextId = 1
    /\ persisted = [a \in IdSet |-> 0]
    /\ term = [a \in IdSet |-> 0]
    /\ defq = [a \in IdSet |-> 0]
    /\ nev = 0
    /\ eth = NoEth
    /\ pull = NoPull
    /\ env = [ids |-> <<"A">>, events |-> MaxEvents, vers |-> {2}, bcs |-> {FALSE},
              writable |-> {TRUE},
              lookup |-> {"none", "find"}, script |-> <<>>]

Next ==
    \/ \E w \in Workers : StartInitiate(w)
    \/ \E w \in Workers : InitSelect(w)
    \/ \E w \in Workers : InitCheck(w)
    \/ \E w \in Workers : InitFinish(w)
    \/ \E w \in Workers : StartReply(w)
    \/ \E w \in Workers : ReplyFind(w)
    \/ \E w \in Workers : ReplyPersist(w)
    \/ \E w \in Workers : ReplyReconcile(w)
    \/ \E w \in Workers : ReplyPost(w)
    \/ \E w \in Workers : ReplyNegative(w)
    \/ \E w \in Workers : ReplyEnd(w)
    \/ \E w \in Workers : StartAck(w)
    \/ \E w \in Workers : AckBody(w)
    \/ \E w \in Workers : StartCancel(w)
    \/ \E w \in Workers : CancelBody(w)
    \/ \E w \in Workers : CancelDelete(w)
    \/ \E w \in Workers : StartUpgrade(w)
    \/ \E w \in Workers : UpgradeFinish(w)
    \/ \E id \in IdSet : ExternalCancel(id)

Spec == Init /\ [][Next]_vars

----------------------------------------------------------------------------
(* The selection loop alone: one InitiateNewAgreement at the top of its loop, *)
(* over every workload list and every stored workload usage                    *)

Workloads == {Workload(p, r) : p \in 0..MaxPriority, r \in 0..MaxRetries}

Policies == UNION {[1..n -> Workloads] : n \in 1..MaxWorkloads}

Usages ==
    {NoWU} \cup {[present |-> TRUE, prio |-> p, rc |-> c, dr |-> d, rnm |-> FALSE,
                  agid |-> NoId, pol |-> TRUE] :
                 p \in 1..MaxPriority, c \in 0..(MaxRetries + 1), d \in BOOLEAN}

InitSelector ==
    /\ wk = [w \in Workers |-> IF w = WorkerSeq[1]
                               THEN [Idle EXCEPT !.pc = "i_sel", !.id = Ids[1], !.lock = 1]
                               ELSE Idle]
    /\ lockMap = [a \in IdSet |-> IF a = Ids[1] THEN 1 ELSE 0]
    /\ holder = [i \in Inst |-> IF i = 1 THEN WorkerSeq[1] ELSE "free"]
    /\ ag = [a \in IdSet |-> NoAg]
    /\ wu \in Usages
    /\ policy \in Policies \cup {Policy0}
    /\ known = {}
    /\ nextId = 2
    /\ persisted = [a \in IdSet |-> 0]
    /\ term = [a \in IdSet |-> 0]
    /\ defq = [a \in IdSet |-> 0]
    /\ nev = 0
    /\ eth = NoEth
    /\ pull = NoPull
    /\ env = [ids |-> <<Ids[1]>>, events |-> 0, vers |-> {2}, bcs |-> {FALSE},
              writable |-> {TRUE},
              lookup |-> {"none", "find"}, script |-> <<>>]

NextSelector ==
    \/ \E w \in Workers : InitSelect(w)
    \/ \E w \in Workers : InitCheck(w)
    \/ \E w \in Workers : InitFinish(w)

SpecSelector == InitSelector /\ [][NextSelector]_vars

----------------------------------------------------------------------------
(* Policies with an empty-priority workload: two agreement ids, an Initiate, *)
(* the Reply to it and a second Initiate                                      *)

EmptyPolicies ==
    {<<Workload(0, 0)>>, <<Workload(0, 0), Workload(1, 1)>>, Policy0}

InitEmpty ==
    /\ wk = [w \in Workers |-> Idle]
    /\ lockMap = [a \in IdSet |-> 0]
    /\ holder = [i \in Inst |-> "free"]
    /\ ag = [a \in IdSet |-> NoAg]
    /\ wu = NoWU
    /\ policy \in EmptyPolicies
    /\ known = {}
    /\ nextId = 1
    /\ persisted = [a \in IdSet |-> 0]
    /\ term = [a \in IdSet |-> 0]
    /\ defq = [a \in IdSet |-> 0]
    /\ nev = 0
    /\ eth = NoEth
    /\ pull = NoPull
    /\ env = [ids |-> Ids, events |-> 3, vers |-> {2}, bcs |-> {FALSE},
              writable |-> {TRUE},
              lookup |-> {"none", "find"}, script |-> <<"initiate", "reply", "initiate">>]

NextEmpty ==
    \/ \E w \in Workers : StartInitiate(w)
    \/ \E w \in Workers : InitSelect(w)
    \/ \E w \in Workers : InitCheck(w)
    \/ \E w \in Workers : InitFinish(w)
    \/ \E w \in Workers : StartReply(w)
    \/ \E w \in Workers : ReplyFind(w)
    \/ \E w \in Workers : ReplyPersist(w)
    \/ \E w \in Workers : ReplyReconcile(w)
    \/ \E w \in Workers : ReplyPost(w)
    \/ \E w \in Workers : ReplyNegative(w)
    \/ \E w \in Workers : ReplyEnd(w)
    \/ \E w \in Workers : CancelBody(w)
    \/ \E w \in Workers : CancelDelete(w)

SpecEmpty == InitEmpty /\ [][NextEmpty]_vars

----------------------------------------------------------------------------
(* Cancellation against a ledger that is down and comes up: one agreement,  *)
(* protocol versions 1 and 2, with and without a ledger type                 *)

LedgerScripts ==
    {<<"initiate", "reply", "cancel">>, <<"initiate", "cancel">>}

\* IsBlockchainWritable turns true and stays true
LedgerUp ==
    /\ env.writable = {FALSE}
    /\ env' = [env EXCEPT !.writable = {TRUE}]
    /\ UNCHANGED <<wk, lockMap, holder, ag, wu, policy, known, nextId, persisted,
                   term, defq, nev, eth, pull>>

InitLedger ==
    /\ wk = [w \in Workers |-> Idle]
    /\ lockMap = [a \in IdSet |-> 0]
    /\ holder = [i \in Inst |-> "free"]
    /\ ag = [a \in IdSet |-> NoAg]
    /\ wu = NoWU
    /\ policy = Policy0
    /\ known = {}
    /\ nextId = 1
    /\ persisted = [a \in IdSet |-> 0]
    /\ term = [a \in IdSet |-> 0]
    /\ defq = [a \in IdSet |-> 0]
    /\ nev = 0
    /\ eth = NoEth
    /\ pull = NoPull
    /\ \E sc \in LedgerScripts :
         env = [ids |-> <<Ids[1]>>, events |-> Len(sc), vers |-> {1, 2},
                bcs |-> BOOLEAN, writable |-> {FALSE}, lookup |-> {"none"},
                script |-> sc]

NextLedger ==
    \/ \E w \in Workers : StartInitiate(w)
    \/ \E w \in Workers : InitSelect(w)
    \/ \E w \in Workers : InitCheck(w)
    \/ \E w \in Workers : InitFinish(w)
    \/ \E w \in Workers : StartReply(w)
    \/ \E w \in Workers : ReplyFind(w)
    \/ \E w \in Workers : ReplyPersist(w)
    \/ \E w \in Workers : ReplyReconcile(w)
    \/ \E w \in Workers : ReplyPost(w)
    \/ \E w \in Workers : ReplyNegative(w)
    \/ \E w \in Workers : ReplyEnd(w)
    \/ \E w \in Workers : StartCancel(w)
    \/ \E w \in Workers : CancelBody(w)
    \/ \E w \in Workers : CancelDelete(w)
    \/ \E id \in IdSet : ExternalCancel(id)
    \/ LedgerUp

\* the workers go on and the deferred commands are executed
SpecLedger ==
    /\ InitLedger
    /\ [][NextLedger]_vars
    /\ WF_vars(NextLedger)
    /\ \A id \in IdSet : WF_vars(ExternalCancel(id))

----------------------------------------------------------------------------
(* The happy path: one device, a policy with one workload of priority 1, an *)
(* Initiate, the Reply to it and the DataReceivedAck                          *)

PolicyP == <<Workload(1, 1)>>

InitHappy ==
    /\ wk = [w \in Workers |-> Idle]
    /\ lockMap = [a \in IdSet |-> 0]
    /\ holder = [i \in Inst |-> "free"]
    /\ ag = [a \in IdSet |-> NoAg]
    /\ wu = NoWU
    /\ policy = PolicyP
    /\ known = {}
    /\ nextId = 1
    /\ persisted = [a \in IdSet |-> 0]
    /\ term = [a \in IdSet |-> 0]
    /\ defq = [a \in IdSet |-> 0]
    /\ nev = 0
    /\ eth = NoEth
    /\ pull = NoPull
    /\ env = [ids |-> <<Ids[1]>>, events |-> 3, vers |-> {2}, bcs |-> {FALSE},
              writable |-> {TRUE}, lookup |-> {"none"},
              script |-> <<"initiate", "reply", "ack">>]

NextHappy ==
    \/ \E w \in Workers : StartInitiate(w)
    \/ \E w \in Workers : InitSelect(w)
    \/ \E w \in Workers : InitCheck(w)
    \/ \E w \in Workers : InitFinish(w)
    \/ \E w \in Workers : StartReply(w)
    \/ \E w \in Workers : ReplyFind(w)
    \/ \E w \in Workers : ReplyPersist(w)
    \/ \E w \in Workers : ReplyReconcile(w)
    \/ \E w \in Workers : ReplyPost(w)
    \/ \E w \in Workers : ReplyNegative(w)
    \/ \E w \in Workers : ReplyEnd(w)
    \/ \E w \in Workers : CancelBody(w)
    \/ \E w \in Workers : CancelDelete(w)
    \/ \E w \in Workers : StartAck(w)
    \/ \E w \in Workers : AckBody(w)

SpecHappy == InitHappy /\ [][NextHappy]_vars

----------------------------------------------------------------------------
(* The reply to a proposal that is out, over every stored workload usage     *)

StoredUsages ==
    {[present |-> TRUE, prio |-> p, rc |-> c, dr |-> d, rnm |-> r,
      agid |-> NoId, pol |-> h] :
     p \in 1..MaxPriority, c \in 0..(MaxRetries + 1), d \in BOOLEAN,
     r \in BOOLEAN, h \in BOOLEAN}

InitReconcile ==
    /\ wk = [w \in Workers |-> Idle]
    /\ lockMap = [a \in IdSet |-> 0]
    /\ holder = [i \in Inst |-> "free"]
    /\ \E i \in 1..Len(Policy0) :
         ag = [a \in IdSet |->
                 IF a = Ids[1]
                 THEN [NoAg EXCEPT !.state = "Proposed", !.prop = TRUE,
                                   !.wlprio = Policy0[i].prio]
                 ELSE NoAg]
    /\ wu \in StoredUsages
    /\ policy = Policy0
    /\ known = {Ids[1]}
    /\ nextId = 2
    /\ persisted = [a \in IdSet |-> 0]
    /\ term = [a \in IdSet |-> 0]
    /\ defq = [a \in IdSet |-> 0]
    /\ nev = 0
    /\ eth = NoEth
    /\ pull = NoPull
    /\ env = [ids |-> <<Ids[1]>>, events |-> 1, vers |-> {2}, bcs |-> {FALSE},
              writable |-> {TRUE}, lookup |-> {"none"}, script |-> <<"reply">>]

NextReconcile ==
    \/ \E w \in Workers : StartReply(w)
    \/ \E w \in Workers : ReplyFind(w)
    \/ \E w \in Workers : ReplyPersist(w)
    \/ \E w \in Workers : ReplyReconcile(w)
    \/ \E w \in Workers : ReplyPost(w)
    \/ \E w \in Workers : ReplyNegative(w)
    \/ \E w \in Workers : ReplyEnd(w)
    \/ \E w \in Workers : CancelBody(w)
    \/ \E w \in Workers : CancelDelete(w)

SpecReconcile == InitReconcile /\ [][NextReconcile]_vars

----------------------------------------------------------------------------
(* Replies for two agreements of one device and policy: both records are     *)
(* Proposed, one workload usage record is stored for the pair                *)

InitRetry ==
    /\ wk = [w \in Workers |-> Idle]
    /\ lockMap = [a \in IdSet |-> 0]
    /\ holder = [i \in Inst |-> "free"]
    /\ ag = [a \in IdSet |-> [NoAg EXCEPT !.state = "Proposed", !.prop = TRUE,
                                          !.wlprio = Policy0[1].prio]]
    /\ \E d \in BOOLEAN :
         wu = [present |-> TRUE, prio |-> Policy0[1].prio, rc |-> 0, dr |-> d,
               rnm |-> FALSE, agid |-> NoId, pol |-> TRUE]
    /\ policy = Policy0
    /\ known = IdSet
    /\ nextId = Len(Ids) + 1
    /\ persisted = [a \in IdSet |-> 0]
    /\ term = [a \in IdSet |-> 0]
    /\ defq = [a \in IdSet |-> 0]
    /\ nev = 0
    /\ eth = NoEth
    /\ pull = NoPull
    /\ env = [ids |-> Ids, events |-> 2, vers |-> {2}, bcs |-> {FALSE},
              writable |-> {TRUE}, lookup |-> {"none"}, script |-> <<"reply", "reply">>]

SpecRetry == InitRetry /\ [][NextReconcile]_vars

----------------------------------------------------------------------------
(* The EthBlockchainWorker alone: commands for two blockchains of one org *)

InitEth ==
    /\ wk = [w \in Workers |-> Idle]
    /\ lockMap = [a \in IdSet |-> 0]
    /\ holder = [i \in Inst |-> "free"]
    /\ ag = [a \in IdSet |-> NoAg]
    /\ wu = NoWU
    /\ policy = Policy0
    /\ known = {}
    /\ nextId = 1
    /\ persisted = [a \in IdSet |-> 0]
    /\ term = [a \in IdSet |-> 0]
    /\ defq = [a \in IdSet |-> 0]
    /\ nev = 0
    /\ eth = NoEth
    /\ pull = NoPull
    /\ env = [ids |-> <<>>, events |-> 0, vers |-> {2}, bcs |-> {FALSE},
              writable |-> {TRUE}, lookup |-> {"none"}, script |-> <<>>]

NextEth ==
    \/ EthNewEvent
    \/ EthTick
    \/ EthNewClient
    \/ EthNotExecuting
    \/ EthContainerShutdown
    \/ EthReportNeeded
    \/ EthAllShutdown

SpecEth == InitEth /\ [][NextEth]_vars

----------------------------------------------------------------------------
(* pullImageFromRepos alone: one call for every deployment description *)

InitPull ==
    /\ wk = [w \in Workers |-> Idle]
    /\ lockMap = [a \in IdSet |-> 0]
    /\ holder = [i \in Inst |-> "free"]
    /\ ag = [a \in IdSet |-> NoAg]
    /\ wu = NoWU
    /\ policy = Policy0
    /\ known = {}
    /\ nextId = 1
    /\ persisted = [a \in IdSet |-> 0]
    /\ term = [a \in IdSet |-> 0]
    /\ defq = [a \in IdSet |-> 0]
    /\ nev = 0
    /\ eth = NoEth
    /\ pull = NoPull
    /\ env = [ids |-> <<>>, events |-> 0, vers |-> {2}, bcs |-> {FALSE},
              writable |-> {TRUE}, lookup |-> {"none"}, script |-> <<>>]

NextPull ==
    \/ PullStart
    \/ PullRange
    \/ PullAttempt

SpecPull == InitPull /\ [][NextPull]_vars

----------------------------------------------------------------------------
(* The tail of InitiateNewAgreement step by step, with the Reply to it *)

InitInitiate ==
    /\ wk = [w \in Workers |-> Idle]
    /\ lockMap = [a \in IdSet |-> 0]
    /\ holder = [i \in Inst |-> "free"]
    /\ ag = [a \in IdSet |-> NoAg]
    /\ wu = NoWU
    /\ policy \in EmptyPolicies
    /\ known = {}
    /\ nextId = 1
    /\ persisted = [a \in IdSet |-> 0]
    /\ term = [a \in IdSet |-> 0]
    /\ defq = [a \in IdSet |-> 0]
    /\ nev = 0
    /\ eth = NoEth
    /\ pull = NoPull
    /\ env = [ids |-> <<Ids[1]>>, events |-> 2, vers |-> {2}, bcs |-> {FALSE},
              writable |-> {TRUE},
              lookup |-> {"none"}, script |-> <<"initiate", "reply">>]

NextInitiate ==
    \/ \E w \in Workers : StartInitiate(w)
    \/ \E w \in Workers : InitSelect(w)
    \/ \E w \in Workers : InitCheck(w)
    \/ \E w \in Workers : InitGate(w)
    \/ \E w \in Workers : InitAttempt(w)
    \/ \E w \in Workers : InitPropose(w)
    \/ \E w \in Workers : InitPersist(w)
    \/ \E w \in Workers : StartReply(w)
    \/ \E w \in Workers : ReplyFind(w)
    \/ \E w \in Workers : ReplyPersist(w)
    \/ \E w \in Workers : ReplyReconcile(w)
    \/ \E w \in Workers : ReplyPost(w)
    \/ \E w \in Workers : ReplyNegative(w)
    \/ \E w \in Workers : ReplyEnd(w)
    \/ \E w \in Workers : CancelBody(w)
    \/ \E w \in Workers : CancelDelete(w)

SpecInitiate == InitInitiate /\ [][NextInitiate]_vars

----------------------------------------------------------------------------
(* Workload upgrades: two agreement ids, the events in a fixed order *)

UpgradeScripts ==
    {<<"initiate", "upgrade", "initiate">>,
     <<"initiate", "initiate", "upgrade", "cancel">>}

InitUpgrade ==
    /\ wk = [w \in Workers |-> Idle]
    /\ lockMap = [a \in IdSet |-> 0]
    /\ holder = [i \in Inst |-> "free"]
    /\ ag = [a \in IdSet |-> NoAg]
    /\ wu = NoWU
    /\ policy = Policy0
    /\ known = {}
    /\ nextId = 1
    /\ persisted = [a \in IdSet |-> 0]
    /\ term = [a \in IdSet |-> 0]
    /\ defq = [a \in IdSet |-> 0]
    /\ nev = 0
    /\ eth = NoEth
    /\ pull = NoPull
    /\ \E sc \in UpgradeScripts :
         env = [ids |-> Ids, events |-> Len(sc), vers |-> {2}, bcs |-> {FALSE},
                writable |-> {TRUE},
              lookup |-> {"none", "find"}, script |-> sc]

NextUpgrade ==
    \/ \E w \in Workers : StartInitiate(w)
    \/ \E w \in Workers : InitSelect(w)
    \/ \E w \in Workers : InitCheck(w)
    \/ \E w \in Workers : InitFinish(w)
    \/ \E w \in Workers : StartUpgrade(w)
    \/ \E w \in Workers : StartCancel(w)
    \/ \E w \in Workers : CancelBody(w)
    \/ \E w \in Workers : CancelDelete(w)
    \/ \E w \in Workers : UpgradeFinish(w)
    \/ \E id \in IdSet : ExternalCancel(id)

SpecUpgrade == InitUpgrade /\ [][NextUpgrade]_vars

----------------------------------------------------------------------------
(* Properties *)

\* C1: mutual exclusion per agreement id - no two workers are inside a
\* lock-protected critical section for the same agreement id at the same time
MutualExclusion ==
    \A w, v \in Workers :
        (w # v /\ Holds(w) /\ Holds(v)) => wk[w].id # wk[v].id

\* C2: single reply - for every agreement id PersistReply succeeds at most once
SingleReply == \A id \in IdSet : persisted[id] <= 1

\* a duplicate reply was discarded while the first reply's blockchain write is
\* still in progress
SingleReplyWitness ==
    \E w, v \in Workers :
        /\ wk[w].pc = "r_post" /\ wk[v].pc = "r_end"
        /\ wk[v].id = wk[w].id /\ wk[v].dup
        /\ persisted[wk[w].id] = 1

\* C3 (as stated): a positive reply that arrives after a reply was persisted
\* for its agreement id gets no ack, no positive ack and no blockchain write;
\* here for an agreement that was archived in the meantime
ReplayIsSilent ==
    \A w \in Workers :
        (wk[w].pc = "r_end" /\ wk[w].replay /\ ag[wk[w].id].archived)
            => (~NegAck(w) /\ wk[w].posAck = "no" /\ ~wk[w].posted /\ ~wk[w].pers)

\* C3 (amended): a positive reply whose lookup finds the unarchived agreement
\* with a reply already received gets no ack of either kind, persists nothing
\* and causes no blockchain write
DuplicateIsSilent ==
    \A w \in Workers :
        wk[w].dup => (~NegAck(w) /\ wk[w].posAck = "no" /\ ~wk[w].posted /\ ~wk[w].pers)

\* a replayed reply found the reply already received
DuplicateIsSilentWitness ==
    \E w \in Workers : wk[w].pc = "r_end" /\ wk[w].replay /\ wk[w].dup

\* C4: the worker that is about to run or is running PostReply holds no
\* agreement lock
CommitWithoutLock ==
    \A w \in Workers : wk[w].pc = "r_post" => \A i \in Inst : holder[i] # w

\* while one worker's blockchain write is in progress another worker holds the
\* lock of the same agreement id
CommitWithoutLockWitness ==
    \E w, v \in Workers :
        /\ w # v /\ wk[w].pc = "r_post"
        /\ wk[v].id = wk[w].id /\ Holds(v)

\* C5: PostReply is invoked only after the reply was persisted and the
\* positive reply ack was sent
CommitAfterAck ==
    \A w \in Workers : wk[w].pc = "r_post" => (wk[w].pers /\ wk[w].posAck = "sent")

CommitFailureReason ==
    \A w \in Workers :
        (wk[w].pc = "r_end" /\ wk[w].ret = "reply" /\ ag[wk[w].id].archived)
            => ag[wk[w].id].reason = TERM_REASON_CANCEL_BC_WRITE_FAILED

\* C7 (amended): the cancellation after a failed PostReply is called without
\* any lock held and with CANCEL_BC_WRITE_FAILED, and when it finds the
\* agreement unarchived and archives it, the agreement is archived with that
\* reason
CommitFailureCancel ==
    \A w \in Workers :
        wk[w].ret = "reply" =>
            /\ wk[w].reason = TERM_REASON_CANCEL_BC_WRITE_FAILED
            /\ wk[w].pc = "c_lock" => \A i \in Inst : holder[i] # w
            /\ (wk[w].cFound /\ wk[w].cArch)
                 => /\ ag[wk[w].id].archived
                    /\ ag[wk[w].id].reason = TERM_REASON_CANCEL_BC_WRITE_FAILED

\* a failed PostReply was followed by a cancellation that archived the agreement
CommitFailureCancelWitness ==
    \E w \in Workers :
        wk[w].pc = "r_end" /\ wk[w].ret = "reply" /\ wk[w].cFound /\ wk[w].cArch

Rank(st) ==
    CASE st = "None" -> 0
      [] st = "Pending" -> 1
      [] st = "Proposed" -> 2
      [] st = "Replied" -> 3
      [] st = "DataReceived" -> 4
      [] st = "TimedOut" -> 5
      [] st = "Archived" -> 6

SelectorTermination ==
    \A w \in Workers :
        /\ wk[w].pc = "i_sel" => wk[w].iter + 1 <= Len(policy) + 1
        /\ wk[w].pc \in {"i_chk", "i_fin"} => wk[w].iter <= Len(policy) + 1

\* every workload of a longest list was tried and the loop is at the top of
\* its last iteration
SelectorTerminationWitness ==
    \E w \in Workers :
        wk[w].pc = "i_sel" /\ Len(policy) = MaxWorkloads /\ wk[w].iter = Len(policy)

\* C11: an Initiate that starts after a WorkloadUpgrade event was handled
\* begins its selection at the highest-priority workload
UpgradeResetsSelection ==
    \A w \in Workers :
        (wk[w].pc = "i_chk" /\ wk[w].iter = 1 /\ wk[w].afterUp)
            => wk[w].wl = NextHighestPriorityWorkload(policy, 0, 0, FALSE)

PriorityRollback ==
    \A w \in Workers :
        LET l == wk[w].last
            id == wk[w].id
        IN (wk[w].pc \in {"i_sel", "i_chk", "i_fin"} /\ l # 0 /\ ~HasEmptyPriority(policy, l)) =>
              /\ wk[w].pc = "i_sel" =>
                    /\ wu.present /\ wu.prio = policy[l].prio
                    /\ wu.rc = policy[l].retries + 1 /\ wu.agid = id
                    /\ wk[w].iter = 1 => wu.rnm
              /\ wk[w].pc \in {"i_chk", "i_fin"} =>
                    policy[wk[w].wl].prio > policy[l].prio
              /\ wk[w].pc = "i_fin" => ag[id].state = "None"

\* W0 (priority 1, retries 2) was unsupported, the usage record holds priority
\* 1, retry count 3 and reqs_not_met, and the agreement was proposed for W1
PriorityRollbackWitness ==
    /\ policy = Policy0
    /\ wu = [present |-> TRUE, prio |-> 1, rc |-> 3, dr |-> FALSE, rnm |-> TRUE,
             agid |-> Ids[1], pol |-> FALSE]
    /\ ag[Ids[1]].state = "Proposed" /\ ag[Ids[1]].wlprio = 2

\* C14: a workload with the empty priority never gets a workload usage
\* record - neither the selection loop nor the reply handler creates one
NoUsageForEmptyPriority ==
    /\ wu.present => wu.prio # 0
    /\ (\A i \in 1..Len(policy) : HasEmptyPriority(policy, i)) => ~wu.present

\* the reply for an agreement on an empty-priority workload was accepted and
\* the second Initiate found that workload unsupported: no usage record
NoUsageForEmptyPriorityWitness ==
    /\ ~wu.present
    /\ ag[Ids[1]].state = "Replied" /\ ag[Ids[1]].wlprio = 0
    /\ \E w \in Workers :
         /\ wk[w].pc = "i_sel" /\ wk[w].last # 0
         /\ HasEmptyPriority(policy, wk[w].last)

SpawnWithoutCounterparty ==
    [][\A w \in Workers :
          LET id == wk[w].id IN
          ((\/ wk[w].pc = "c_lock" /\ wk'[w].pc = "c_del"
            \/ wk[w].pc = "r_lock" /\ ~wk[w].acc /\ wk'[w].pc = "r_end")
           /\ wk'[w].cFound /\ ~ag[id].cpa) =>
              term'[id] = Bump(term, id)[id]]_vars

\* an agreement without a reply was cancelled by a Cancel event while the
\* ledger was down, and TerminateAgreement was spawned
SpawnWithoutCounterpartyWitness ==
    /\ env.writable = {FALSE}
    /\ \E w \in Workers :
         /\ wk[w].pc = "c_del" /\ wk[w].ret = "cancel" /\ wk[w].cFound
         /\ ~ag[wk[w].id].cpa /\ term[wk[w].id] = 1

\* C18 as stated: a positive reply whose agreement has no unarchived record
\* is discarded with no ack of any kind, no store change and no commit
AbsentIsSilent ==
    [][\A w \in Workers :
          (wk[w].pc = "r_lock" /\ wk[w].acc /\ wk'[w].pc # "r_lock"
           /\ ~Unarchived(ag, wk[w].id)) =>
              /\ wk'[w].pc = "r_end"
              /\ wk'[w].posAck = "no" /\ ~(wk'[w].sendReply /\ ~wk'[w].ackValid)
              /\ ~wk'[w].posted
              /\ UNCHANGED <<ag, wu, persisted, term, defq>>]_vars

\* C18: a positive reply whose agreement has no unarchived record goes
\* straight to the end of the handler, which sends the negative ack: no
\* positive ack, no store change, no commit
AbsentIsRejected ==
    [][\A w \in Workers :
          (wk[w].pc = "r_lock" /\ wk[w].acc /\ wk'[w].pc # "r_lock"
           /\ ~Unarchived(ag, wk[w].id)) =>
              /\ wk'[w].pc = "r_end"
              /\ wk'[w].posAck = "no" /\ wk'[w].sendReply /\ ~wk'[w].ackValid
              /\ ~wk'[w].posted /\ ~wk'[w].pers
              /\ UNCHANGED <<ag, wu, persisted, term, defq>>]_vars

\* a positive reply for an agreement that a cancel archived is at the end of
\* the handler, about to send the negative ack
AbsentIsRejectedWitness ==
    \E w \in Workers :
        /\ wk[w].pc = "r_end" /\ wk[w].acc /\ NegAck(w)
        /\ ~wk[w].pers /\ ~wk[w].posted /\ ~wk[w].dup
        /\ ag[wk[w].id].archived /\ ag[wk[w].id].reason = TERM_REASON_OTHER

\* C19: lock deletion precondition - when CancelAgreementWithLock removes the
\* lock of an agreement id from the map, no worker holds that instance and no
\* other worker has fetched that instance and is about to lock it
LockDeletePrecondition ==
    [][\A w \in Workers :
          LET l == lockMap[wk[w].id] IN
          (wk[w].pc = "c_del" /\ wk'[w] # wk[w] /\ l # 0) =>
              /\ holder[l] = "free"
              /\ \A v \in Workers \ {w} : wk[v].lock # l]_vars

\* C20: the happy path - the accepted reply to the proposal for W0 (priority
\* 1) is persisted, the agreement is Replied, the positive ack is sent, the
\* usage record (unless the store failed) holds priority 1, no reqs_not_met
\* and the agreement id, the ledger commit is invoked; the DataReceivedAck
\* that follows records the data receipt
HappyPath ==
    [][\A w \in Workers :
          LET id == wk[w].id IN
          /\ (wk[w].pc = "r_wu" /\ wk'[w].pc = "r_post") =>
                /\ wk'[w].pers /\ wk'[w].ackValid /\ wk'[w].posAck \in Sends
                /\ ag'[id].state = "Replied" /\ ag'[id].replied /\ ~ag'[id].archived
                /\ \/ wu' = NoWU
                   \/ wu' = [present |-> TRUE, prio |-> 1, rc |-> 0, dr |-> FALSE,
                             rnm |-> FALSE, agid |-> id, pol |-> TRUE]
          /\ (wk[w].pc = "r_wu" /\ wk'[w].pc # "r_wu") => wk'[w].pc = "r_post"
          /\ (wk[w].pc = "r_post" /\ wk'[w].pc # "r_post") => wk'[w].posted
          /\ (wk[w].pc = "d_lock" /\ wk'[w].pc = "idle"
              /\ Unarchived(ag, id) /\ ag[id].state = "Replied") =>
                \/ ag' = ag
                \/ ag' = [ag EXCEPT ![id].state = "DataReceived",
                                    ![id].dataRcvd = TRUE]]_vars

\* the three events are through: the agreement has its reply and its data
\* receipt, the usage record holds priority 1 and the agreement id
HappyPathWitness ==
    /\ \A w \in Workers : wk[w].pc = "idle"
    /\ nev = 3 /\ persisted[Ids[1]] = 1
    /\ ag[Ids[1]].state = "DataReceived" /\ ag[Ids[1]].replied
    /\ ag[Ids[1]].dataRcvd /\ ~ag[Ids[1]].archived
    /\ wu = [present |-> TRUE, prio |-> 1, rc |-> 0, dr |-> FALSE,
             rnm |-> FALSE, agid |-> Ids[1], pol |-> TRUE]

\* C21: a failed initiation leaves no partial record - once the handler has
\* returned, no unarchived Pending record of the generated id remains
NoPartialRecord ==
    \A id \in IdSet :
        (ag[id].state = "Pending" /\ ~ag[id].archived) =>
            \E w \in Workers : wk[w].id = id /\ wk[w].pc \in {"i_sel", "i_chk", "i_fin"}

\* C22: a store failure while a positive reply is processed yields a negative
\* ack - after a failed workload usage lookup the handler sends no positive
\* ack, does not commit and ends with the negative ack
StoreFailureNegativeAck ==
    \A w \in Workers :
        (wk[w].acc /\ wk[w].wuErr /\ wk[w].pc \in {"r_post", "r_end", "c_lock", "c_del"}) =>
            /\ wk[w].posAck = "no" /\ ~wk[w].posted /\ wk[w].pc # "r_post"
            /\ wk[w].pc = "r_end" => NegAck(w)

\* C23: a reply that is acked negatively because its validation failed has
\* left the agreement as it was - this handler has not persisted the reply
\* (state Replied, counterparty address, protocol version)
NegativeAckLeavesAgreement ==
    \A w \in Workers :
        (wk[w].pc = "r_end" /\ wk[w].acc /\ NegAck(w) /\ ~wk[w].posted) => ~wk[w].pers

\* C24: every change of the workload usage record is made by a worker that
\* holds an agreement id lock at that moment (CancelAgreementWithLock and the
\* negative reply take the lock within the step that changes the record)
WorkloadUsageUnderLock ==
    [][wu' # wu =>
          \E w \in Workers :
              /\ wk'[w] # wk[w]
              /\ Holds(w) \/ wk[w].pc \in {"c_lock", "r_lock"}]_vars

\* C25 as stated: when the selection loop gives up on a repeated workload it
\* creates no agreement record, and it deletes the workload usage record only
\* if this loop created it; a record from before the Initiate is left intact
ExhaustionKeepsOldUsage ==
    [][\A w \in Workers :
          (wk[w].pc = "i_sel" /\ wk'[w].pc = "idle") =>
              /\ ag' = ag
              /\ (wu.present /\ wu.agid # wk[w].id) => wu' = wu]_vars

\* C26: reply reconciliation without a workload usage record - a proposal
\* whose workload priority is not the one NextHighestPriorityWorkload(0,0,0)
\* returns now is rejected (negative ack, no commit, no record created); if
\* they match and the priority is not empty, the record is created with that
\* priority, without reqs_not_met and with the reply's agreement id, unless
\* the store refuses it
ReconcileWithoutUsage ==
    [][\A w \in Workers :
          LET id == wk[w].id
              p == wk[w].wl
              top == NextHighestPriorityWorkload(policy, 0, 0, FALSE)
          IN (wk[w].pc = "r_wu" /\ wk'[w].pc # "r_wu"
              /\ ~wk[w].wuErr /\ ~wk[w].snap.present) =>
                /\ policy[top].prio # p =>
                      /\ wk'[w].pc = "r_end" /\ ~wk'[w].ackValid /\ wk'[w].sendReply
                      /\ wk'[w].posAck = "no" /\ ~wk'[w].posted
                      /\ wu' = wu
                /\ (policy[top].prio = p /\ p # 0) =>
                      /\ wk'[w].pc = "r_post" /\ wk'[w].ackValid
                      /\ \/ wu' = wu
                         \/ wu' = [present |-> TRUE, prio |-> p, rc |-> 0, dr |-> FALSE,
                                   rnm |-> FALSE, agid |-> id, pol |-> TRUE]]_vars

\* the reply to a proposal for W1 (priority 2) found no usage record while W0
\* is the highest priority workload: rejected, no record created
ReconcileWithoutUsageWitness ==
    \E w \in Workers :
        /\ wk[w].pc = "r_end" /\ wk[w].wuInvalid /\ NegAck(w)
        /\ wk[w].wl = 2 /\ wk[w].posAck = "no" /\ ~wk[w].posted
        /\ ~wu.present

NegativeReplyCancels ==
    /\ [][\A w \in Workers :
             LET id == wk[w].id
                 l == wk[w].lock
             IN /\ (wk[w].pc = "r_lock" /\ ~wk[w].acc /\ wk'[w].pc # "r_lock") =>
                      /\ wk'[w].pc = "r_end"
                      /\ holder[l] = "free" /\ holder'[l] = w
                      /\ wk'[w].posAck = "no" /\ ~(wk'[w].acc /\ wk'[w].sendReply)
                      /\ ~wk'[w].posted /\ ~wk'[w].pers
                      /\ (wk'[w].cFound /\ wk'[w].cArch) =>
                            /\ ag'[id].archived
                            /\ ag'[id].reason = TERM_REASON_NEGATIVE_REPLY
                      /\ wk'[w].cFound => Unarchived(ag, id)
                /\ (wk[w].pc = "r_end" /\ ~wk[w].acc /\ wk'[w].pc # "r_end") =>
                      /\ wk'[w].pc = "idle"
                      /\ holder[l] = w /\ holder'[l] = "free"]_vars
    /\ \A w \in Workers :
          (wk[w].pc = "r_lock" /\ ~wk[w].acc) ~> (wk[w].pc = "idle")

\* the rejection was handled under the lock: the agreement is archived with
\* reason NEGATIVE_REPLY and no ack was sent
NegativeReplyCancelsWitness ==
    \E w \in Workers :
        /\ wk[w].pc = "r_end" /\ ~wk[w].acc /\ wk[w].cFound /\ wk[w].cArch
        /\ holder[wk[w].lock] = w /\ wk[w].posAck = "no"
        /\ ag[wk[w].id].archived /\ ag[wk[w].id].reason = TERM_REASON_NEGATIVE_REPLY


\* C30: balanced locking and no self-deadlock.  A worker that waits for an
\* agreement-id lock does not hold it, and the worker that does hold it is
\* not itself waiting for a lock; a worker holds at most one agreement-id
\* lock at a time; a worker that has returned from its handler holds none;
\* and a lock is released only by the worker that holds it.
LockWaitPcs == {"r_lock", "c_lock", "d_lock"}

Held(w) == {i \in Inst : holder[i] = w}

BalancedLockingState ==
    \A w \in Workers :
      /\ Cardinality(Held(w)) <= 1
      /\ wk[w].pc = "idle" => Held(w) = {}
      /\ wk[w].pc \in LockWaitPcs =>
           /\ Held(w) = {}
           /\ wk[w].lock \in Inst
           /\ holder[wk[w].lock] # "free" =>
                /\ holder[wk[w].lock] \in Workers \ {w}
                /\ wk[holder[wk[w].lock]].pc \notin LockWaitPcs \cup {"idle"}

BalancedLockingStep ==
    \A i \in Inst :
      (holder[i] # "free" /\ holder'[i] = "free") =>
        /\ holder[i] \in Workers
        /\ wk'[holder[i]] # wk[holder[i]]
        /\ \A v \in Workers \ {holder[i]} : wk'[v] = wk[v]

InitiationOrderingStep ==
    \A w \in Workers :
      LET id == wk[w].id IN
      /\ (wk[w].pc # "i_pers" /\ wk'[w].pc = "i_pers") =>
           /\ wk[w].pc = "i_prop"
           /\ Holds(w)
           /\ lockMap[id] = wk[w].lock
           /\ wk[w].wl \in 1..Len(policy)
           /\ Unarchived(ag, id)
           /\ ag[id].state = "Pending"
      /\ (wk[w].pc \in {"i_sel", "i_chk", "i_fin", "i_att"} /\ wk'[w].pc = "idle") =>
           /\ ag'[id].state = "None"
           /\ ag' = ag

InitiationOrdering == [][InitiationOrderingStep]_vars

\* the proposal has been dispatched and the Pending record is in the store
InitiationOrderingWitness ==
    \E w \in Workers :
      /\ wk[w].pc = "i_pers"
      /\ Holds(w)
      /\ ag[wk[w].id].state = "Pending"


\* C32: handling one Reply event sends at most one reply ack.  A worker at
\* the end of HandleAgreementReply that has sent the positive ack does not
\* send the negative ack as well.
AtMostOneAck ==
    \A w \in Workers :
      (wk[w].pc = "r_end" /\ wk[w].posAck = "sent") => ~NegAck(w)


\* C33: cancellation never skips the ledger-side termination.  A
\* CancelAgreement that finds the agreement unarchived spawns
\* TerminateAgreement or defers an AsyncCancelAgreement command (at least one
\* of the two), whatever the counterparty address, the protocol version, the
\* ledger type and the ledger's writability are.
CancelNeverSkipsTermination ==
    [][\A w \in Workers :
          LET id == wk[w].id IN
          ((\/ wk[w].pc = "c_lock" /\ wk'[w].pc = "c_del"
            \/ wk[w].pc = "r_lock" /\ ~wk[w].acc /\ wk'[w].pc = "r_end")
           /\ wk'[w].cFound) =>
              (term'[id] > term[id] \/ defq'[id] > defq[id])]_vars


\* C34: TerminateAgreement is spawned at most once per agreement id, over
\* CancelAgreement and every ExternalCancel that follows from it.
TerminateAtMostOnce == \A id \in IdSet : term[id] <= 1


\* C35: retry accounting has no lost updates.  Every reconciliation of a
\* positive reply that writes the retry count of a stored record with the
\* agreement's priority and retries enabled raises the stored count by
\* exactly one, whatever the other worker does in between.
NoLostRetryUpdate ==
    [][\A w \in Workers :
          (/\ wk[w].pc = "r_wu" /\ wk'[w].pc = "r_post"
           /\ wu.present /\ ~wu.dr /\ wu.prio = wk[w].wl
           /\ wk[w].snap.present /\ ~wk[w].snap.dr /\ wk[w].snap.prio = wk[w].wl
           /\ wu' # wu) =>
              wu'.rc = wu.rc + 1]_vars


\* C36: cancelling an agreement clears the workload usage record's
\* current agreement id only when it refers to that agreement.  A
\* CancelAgreement for id that finds the record pointing at another
\* agreement, which is still unarchived, leaves the record as it is.
CancelKeepsOtherAgreementId ==
    [][\A w \in Workers :
          LET id == wk[w].id IN
          ((\/ wk[w].pc = "c_lock" /\ wk'[w].pc = "c_del"
            \/ wk[w].pc = "r_lock" /\ ~wk[w].acc /\ wk'[w].pc = "r_end")
           /\ wk'[w].cFound
           /\ wu.present /\ wu.agid \in IdSet \ {id} /\ Unarchived(ag, wu.agid)) =>
              wu' = wu]_vars


\* C37: a stored workload usage record does not break priority rollback.
\* When the first workload the selection loop chose has a priority and a
\* record is stored for the key, remembering that workload as unsupported
\* succeeds: the stored record is updated to the workload's priority with
\* the retry count past its retries, and the loop can go on.
RollbackWithStoredUsage ==
    \A w \in Workers :
      (/\ wk[w].pc = "i_chk" /\ wk[w].last = 0
       /\ wu.present /\ ~HasEmptyPriority(policy, wk[w].wl)) =>
          LET r == RememberUnsupported(wu, wk[w].id, wk[w].wl, wk[w].last = 0) IN
          /\ r.ok
          /\ r.wu.present
          /\ r.wu.prio = policy[wk[w].wl].prio
          /\ r.wu.rc = policy[wk[w].wl].retries + 1


\* C38: no lock leak.  Once an agreement is archived or its initiation was
\* abandoned (no record) and no handler is working on its id, the lock map
\* holds no entry for the id.
NoLockLeak ==
    \A id \in IdSet :
      (/\ ag[id].state = "None" \/ ag[id].archived
       /\ \A w \in Workers : wk[w].id # id) =>
          lockMap[id] = 0


\* C39: blockchain container restart.  When the command at the head of the
\* channel is a ContainerShutdownCommand: during worker shutdown the instance
\* is removed; otherwise, for a tracked instance whose blockchain (org, name)
\* was reported as needed within the last 300 seconds, the instance state is
\* reset and a NewClientCommand for it is enqueued; and a blockchain whose
\* report has expired is not restarted.
RestartsNeededContainer ==
    (eth.commands # <<>> /\ Head(eth.commands).type = "shutdown") =>
        LET c == Head(eth.commands)
            e == Rest(eth)
            r == HandleContainerShutdown(e, c)
            ts == eth.needed[c.org][c.name]
        IN /\ eth.shutting => ~r.instances[c.name].tracked
           /\ (/\ ~eth.shutting /\ eth.instances[c.name].tracked
               /\ ts # Absent /\ eth.clock <= ts + NeededWindowS) =>
                  /\ r.instances[c.name] = [NoInst EXCEPT !.tracked = TRUE, !.org = c.org]
                  /\ r.commands = Append(e.commands, Cmd("newclient", c.name, c.org))
           /\ (~eth.shutting /\ ts # Absent /\ eth.clock > ts + NeededWindowS) => r = e


\* C40: bounded image pull retries.  PullImage is called at most
\* maxPullAttempts times per service and never again for a service whose
\* image was pulled; the error is returned at the third consecutive failure
\* of one service, with no call made for the services not yet visited; and
\* nil is returned only when the image of every service was pulled.
BoundedPullState ==
    /\ \A s \in Services : pull.calls[s] <= maxPullAttempts
    /\ pull.pc = "attempt" =>
         /\ pull.pullAttempts < maxPullAttempts
         /\ pull.calls[pull.cur] = pull.pullAttempts
         /\ pull.cur \notin pull.pulled
    /\ \A s \in pull.left : pull.calls[s] = 0
    /\ pull.ret = "err" =>
         /\ pull.calls[pull.cur] = maxPullAttempts
         /\ pull.cur \notin pull.pulled
    /\ pull.ret = "nil" =>
         pull.pulled = {s \in Services : pull.images[s] # "none"}

BoundedPullStep ==
    /\ \A s \in Services :
         pull'.calls[s] # pull.calls[s] =>
            /\ pull'.calls[s] = pull.calls[s] + 1
            /\ s \notin pull.pulled
            /\ s = pull.cur
    /\ (pull.ret = "none" /\ pull'.ret = "err") =>
         /\ pull.pc = "attempt"
         /\ pull.pullAttempts = maxPullAttempts - 1
         /\ pull'.pulled = pull.pulled

BoundedPull == []BoundedPullState /\ [][BoundedPullStep]_vars

\* the image of one service was pulled, the next service failed three times
\* and the error was returned with a service left unvisited
BoundedPullWitness ==
    /\ pull.ret = "err"
    /\ pull.pulled # {}
    /\ pull.left # {}
    /\ pull.calls[pull.cur] = maxPullAttempts

====
